---- MODULE Spec2Model ----
(***************************************************************************)
(* kajet: the interaction engine of the whiteboard.                        *)
(*                                                                         *)
(* Contents (graphics.rs), the command log (command.rs) and the per-frame  *)
(* state machine (state.rs).  Coordinates are exact integers; an image     *)
(* scale is kept as scale * TexSize, so that Image::width() (scale times   *)
(* the texture width) is the stored integer itself.  The camera stays at   *)
(* Camera::default (zoom 1, origin 0), so that transform() between screen  *)
(* and canvas space is the identity on the values below.                   *)
(***************************************************************************)
EXTENDS Integers, Sequences, FiniteSets, TLC

\* ---------------------------------------------------------------- bounds
\* largest undo_buffer_size tried (the config accepts every usize)
MaxCap == 2
\* CommandInvoker::push calls in one behaviour of Spec or SpecLayers
MaxPushes == 2
\* edits in one behaviour of SpecLaw (n edits, n undos, n redos)
MaxLawEdits == 2
\* gestures in one behaviour of SpecGestures
MaxGestures == 3
\* number of points of one line
MaxPoints == 2
\* number of images in Contents (undo and redo can add copies for ever)
MaxImages == 3
\* longest palette (config.colors) tried
MaxColors == 4
\* frames in one behaviour of SpecCamera
MaxFrames == 4
\* frames with the wheel turned in one behaviour of SpecZooms
MaxZooms == 3
\* side of the (square) clipboard image, in pixels
TexSize == 12

\* mouse positions the window can report
MousePts == { [x |-> 0, y |-> 0], [x |-> 0, y |-> 12] }

\* a position nearer to both than the 10 px of MovingImage::on_exit
NearPts == { [x |-> 0, y |-> 6] }

\* mouse positions in the runs of SpecCamera
CursorPts == { [x |-> 4, y |-> 2], [x |-> 8, y |-> 6] }

\* frame times, as [numerator, denominator] of seconds: 21 frames a
\* second, one frame of exactly the 0.07 s of a zoom animation, and one
\* frame that took 0.28 s
FrameTimes == { << 7, 150 >>, << 7, 100 >>, << 7, 25 >> }

\* two more mouse positions, for the drags of SpecErasers
DragPts == { [x |-> 4, y |-> 4], [x |-> 8, y |-> 8] }

\* what Camera::get_rect can be, as [pos, w, h]: a window of 12 by 12 at
\* the default camera, and the same window panned by (-6, -6)
Views == { [ pos |-> [x |-> 0, y |-> 0], w |-> 12, h |-> 12 ],
           [ pos |-> [x |-> 0 - 6, y |-> 0 - 6], w |-> 12, h |-> 12 ] }

\* Action (input.rs)
Actions == { "Undo", "Redo", "NextColor", "PrevColor", "Paste", "Remove",
             "UpLayer", "DownLayer", "None" }

\* what Action::Paste meets: no clipboard, get_image() fails,
\* load_texture_from_image fails, or an image arrives
ClipOutcomes == { "no_clipboard", "decode_err", "texture_err", "ok" }

\* width of usize (a 64-bit target)
UsizeBits == 64

\* the f32 NaN, kept apart from every scale the model can compute
NaN == 0 - 1000 * 1000

VARIABLES
    contents,         \* SceneData.contents : Contents
    command_invoker,  \* SceneData.command_invoker : CommandInvoker
    state,            \* the current Box<dyn StateHandler>
    mouse,            \* mouse position of the last frame (for get_mouse_delta)
    pc,               \* "running", or where the program is stuck
    trace,            \* history: the commands handed to CommandInvoker::push
    camera,           \* SceneData.camera : Camera
    brush,            \* SceneData.color_idx, brush.color and config.colors
    hist              \* history: bookkeeping of the properties below

vars == << contents, command_invoker, state, mouse, pc, trace, camera, brush,
          hist >>

\* ------------------------------------------------------------ sequences
Last(s) == s[Len(s)]
Front(s) == SubSeq(s, 1, Len(s) - 1)
RemoveAt(s, i) == SubSeq(s, 1, i - 1) \o SubSeq(s, i + 1, Len(s))
Min(a, b) == IF a <= b THEN a ELSE b
LastN(s, n) == SubSeq(s, Len(s) - n + 1, Len(s))

\* ------------------------------------------------------------- Contents
Contents_new ==
    [ lines |-> << >>, images |-> << >>, erasers |-> << >>,
      z |-> 0, next_image_id |-> 0 ]

\* Contents::image: the first image with that id, 0 when there is none
ImageIndex(c, id) ==
    IF \E i \in 1..Len(c.images) : c.images[i].id = id
    THEN CHOOSE i \in 1..Len(c.images) :
            /\ c.images[i].id = id
            /\ \A j \in 1..(i - 1) : c.images[j].id # id
    ELSE 0

HasImage(c, id) == ImageIndex(c, id) # 0

\* Contents::remove_image (the caller keeps the removed image)
remove_image(c, id) ==
    IF HasImage(c, id)
    THEN [c EXCEPT !.images = RemoveAt(c.images, ImageIndex(c, id))]
    ELSE c

\* a layer-up that does not stop at the z counter
move_image_up_unclamped(c, id) ==
    IF HasImage(c, id)
    THEN [c EXCEPT !.images[ImageIndex(c, id)].z = @ + 1]
    ELSE c

move_image_up(c, id) ==
    IF HasImage(c, id)
    THEN [c EXCEPT !.images[ImageIndex(c, id)].z = Min(@ + 1, c.z)]
    ELSE c

move_image_down(c, id) ==
    IF HasImage(c, id)
    THEN [c EXCEPT !.images[ImageIndex(c, id)].z = IF @ = 0 THEN 0 ELSE @ - 1]
    ELSE c

\* born is a history stamp, not a field of the program: the number of
\* push calls made before the item was created.  Every created item is
\* followed by the push of its own command, so later items have larger
\* stamps.
Line_new(start, z, born) ==
    [ points |-> << start >>, finished |-> FALSE, z |-> z, born |-> born ]

Image_new(pos, scale, id, z, born) ==
    [ pos |-> pos, scale |-> scale, id |-> id, z |-> z, is_selected |-> FALSE,
      born |-> born ]

Eraser_new(rect, z, born) == [ rect |-> rect, z |-> z, born |-> born ]

\* ------------------------------------------------------------- commands
DrawLine_new(line) == [ kind |-> "DrawLine", line |-> line ]
PasteImage_new(image) == [ kind |-> "PasteImage", image |-> image ]
RemoveImage_new(image) == [ kind |-> "RemoveImage", image |-> image ]
ResizeImage_new(id, s, e) ==
    [ kind |-> "ResizeImage", id |-> id, start_scale |-> s, end_scale |-> e ]
MoveImage_new(id, s, e) ==
    [ kind |-> "MoveImage", id |-> id, start_pos |-> s, end_pos |-> e ]
AddEraser_new(eraser) == [ kind |-> "AddEraser", eraser |-> eraser ]

\* Vec::pop
Pop(s) == IF s = << >> THEN s ELSE Front(s)

\* Vec::retain(|i| i.id != id)
RECURSIVE RetainNotId(_, _)
RetainNotId(s, id) ==
    IF s = << >> THEN << >>
    ELSE IF s[1].id = id THEN RetainNotId(Tail(s), id)
         ELSE << s[1] >> \o RetainNotId(Tail(s), id)

DrawLine_execute(cmd, c) == [c EXCEPT !.lines = Append(@, cmd.line)]
\* a DrawLine::undo that forgets to pop
DrawLine_undo_keeps(cmd, c) == c
DrawLine_undo(cmd, c) == [c EXCEPT !.lines = Pop(@)]

PasteImage_execute(cmd, c) == [c EXCEPT !.images = Append(@, cmd.image)]
PasteImage_undo(cmd, c) == [c EXCEPT !.images = Pop(@)]

RemoveImage_execute(cmd, c) == [c EXCEPT !.images = RetainNotId(@, cmd.image.id)]
RemoveImage_undo(cmd, c) == [c EXCEPT !.images = Append(@, cmd.image)]

ResizeImage_execute(cmd, c) ==
    IF HasImage(c, cmd.id)
    THEN [c EXCEPT !.images[ImageIndex(c, cmd.id)].scale = cmd.end_scale]
    ELSE c
\* an undo that leaves the scale where execute put it
ResizeImage_undo_keeps(cmd, c) == c
ResizeImage_undo(cmd, c) ==
    IF HasImage(c, cmd.id)
    THEN [c EXCEPT !.images[ImageIndex(c, cmd.id)].scale = cmd.start_scale]
    ELSE c

MoveImage_execute(cmd, c) ==
    IF HasImage(c, cmd.id)
    THEN [c EXCEPT !.images[ImageIndex(c, cmd.id)].pos = cmd.end_pos]
    ELSE c
MoveImage_undo(cmd, c) ==
    IF HasImage(c, cmd.id)
    THEN [c EXCEPT !.images[ImageIndex(c, cmd.id)].pos = cmd.start_pos]
    ELSE c

AddEraser_execute(cmd, c) == [c EXCEPT !.erasers = Append(@, cmd.eraser)]
AddEraser_undo(cmd, c) == [c EXCEPT !.erasers = Pop(@)]

\* dyn Command dispatch
Command_execute(cmd, c) ==
    CASE cmd.kind = "DrawLine" -> DrawLine_execute(cmd, c)
      [] cmd.kind = "PasteImage" -> PasteImage_execute(cmd, c)
      [] cmd.kind = "RemoveImage" -> RemoveImage_execute(cmd, c)
      [] cmd.kind = "ResizeImage" -> ResizeImage_execute(cmd, c)
      [] cmd.kind = "MoveImage" -> MoveImage_execute(cmd, c)
      [] cmd.kind = "AddEraser" -> AddEraser_execute(cmd, c)

Command_undo(cmd, c) ==
    CASE cmd.kind = "DrawLine" -> DrawLine_undo(cmd, c)
      [] cmd.kind = "PasteImage" -> PasteImage_undo(cmd, c)
      [] cmd.kind = "RemoveImage" -> RemoveImage_undo(cmd, c)
      [] cmd.kind = "ResizeImage" -> ResizeImage_undo(cmd, c)
      [] cmd.kind = "MoveImage" -> MoveImage_undo(cmd, c)
      [] cmd.kind = "AddEraser" -> AddEraser_undo(cmd, c)

\* ------------------------------------------------------- CommandInvoker
CommandInvoker_new(buffer_size) ==
    [ undos |-> << >>, redos |-> << >>, buffer_size |-> buffer_size ]

\* while log.len() >= buffer_size { log.pop_front(); }
\* pop_front on an empty deque changes nothing, so with the guard still
\* true the loop never leaves: spin
\* a log that is never trimmed
EvictLoop_never(log, buffer_size) == [ spin |-> FALSE, log |-> log ]
RECURSIVE EvictLoop(_, _)
EvictLoop(log, buffer_size) ==
    IF Len(log) >= buffer_size
    THEN IF log = << >>
         THEN [ spin |-> TRUE, log |-> log ]
         ELSE EvictLoop(Tail(log), buffer_size)
    ELSE [ spin |-> FALSE, log |-> log ]

\* d is the part of SceneData a handler works on, with the control state:
\* [contents, command_invoker, pc, trace]
\* the classic invoker, whose push clears the redo log
CommandInvoker_push_clears(d, command) ==
    LET ev == EvictLoop(d.command_invoker.undos, d.command_invoker.buffer_size)
        called == [d EXCEPT !.trace = Append(@, command),
                            !.command_invoker.redos = << >>]
    IN  IF ev.spin
        THEN [called EXCEPT !.pc = "push_loop"]
        ELSE [called EXCEPT !.command_invoker.undos = Append(ev.log, command)]
CommandInvoker_push(d, command) ==
    LET ev == EvictLoop(d.command_invoker.undos, d.command_invoker.buffer_size)
        called == [d EXCEPT !.trace = Append(@, command)]
    IN  IF ev.spin
        THEN [called EXCEPT !.pc = "push_loop"]
        ELSE [called EXCEPT !.command_invoker.undos = Append(ev.log, command)]

\* an undo that takes the oldest command instead of the newest
CommandInvoker_undo_oldest(d) ==
    IF d.command_invoker.undos = << >> THEN d
    ELSE LET command == Head(d.command_invoker.undos)
             ev == EvictLoop(d.command_invoker.redos,
                             d.command_invoker.buffer_size)
         IN  [d EXCEPT !.command_invoker.undos = Tail(@),
                       !.contents = Command_undo(command, @),
                       !.command_invoker.redos = Append(ev.log, command)]
CommandInvoker_undo(d) ==
    IF d.command_invoker.undos = << >> THEN d
    ELSE LET command == Last(d.command_invoker.undos)
             ev == EvictLoop(d.command_invoker.redos,
                             d.command_invoker.buffer_size)
         IN  IF ev.spin
             THEN [d EXCEPT !.command_invoker.undos = Front(@),
                            !.contents = Command_undo(command, @),
                            !.pc = "undo_loop"]
             ELSE [d EXCEPT !.command_invoker.undos = Front(@),
                            !.contents = Command_undo(command, @),
                            !.command_invoker.redos = Append(ev.log, command)]

CommandInvoker_redo(d) ==
    IF d.command_invoker.redos = << >> THEN d
    ELSE LET command == Last(d.command_invoker.redos)
             ev == EvictLoop(d.command_invoker.undos,
                             d.command_invoker.buffer_size)
         IN  IF ev.spin
             THEN [d EXCEPT !.command_invoker.redos = Front(@),
                            !.contents = Command_execute(command, @),
                            !.pc = "redo_loop"]
             ELSE [d EXCEPT !.command_invoker.redos = Front(@),
                            !.contents = Command_execute(command, @),
                            !.command_invoker.undos = Append(ev.log, command)]

\* ------------------------------------------------------------- geometry
Origin == [x |-> 0, y |-> 0]
PointAdd(p, v) == [x |-> p.x + v.x, y |-> p.y + v.y]
PointSub(p, q) == [x |-> p.x - q.x, y |-> p.y - q.y]

\* Point::distance_to squared (the thresholds are compared squared)
Dist2(p, q) == (p.x - q.x) * (p.x - q.x) + (p.y - q.y) * (p.y - q.y)

Abs(a) == IF a < 0 THEN -a ELSE a

\* Image::in_bounds: the box pos .. pos + (width, height), closed at its
\* min faces and open at its max faces; a NaN scale contains nothing
in_bounds(img, p) ==
    /\ img.scale # NaN
    /\ img.pos.x <= p.x /\ p.x < img.pos.x + img.scale
    /\ img.pos.y <= p.y /\ p.y < img.pos.y + img.scale

\* ResizingImage::step: img.scale *= 1.0 + (sx or sy), sx = dx / width,
\* sy = dy / height; width = height = scale here, so the product is
\* scale + dx or scale + dy, and NaN once the width is 0
ResizeScale(scale, dlt) ==
    IF scale = NaN \/ scale = 0 THEN NaN
    ELSE scale + (IF Abs(dlt.x) > Abs(dlt.y) THEN dlt.x ELSE dlt.y)

\* Option<ImageId>::None
NoImage == -1

\* The hit test (Scene::try_select_image): the images are walked in
\* reverse storage order and the walk breaks at the first one whose bounds
\* contain the point; NoImage when none does
image_under_cursor(c, p) ==
    LET hit == { i \in 1..Len(c.images) : in_bounds(c.images[i], p) }
    IN  IF hit = {} THEN NoImage
        ELSE c.images[CHOOSE k \in hit : \A j \in hit : j <= k].id

\* what SceneData::image_under_cursor hands to a step
HitChoices(c, p) == { image_under_cursor(c, p) }

\* ---------------------------------------------------------- the states
NoEraser == [ pos |-> Origin, w |-> 0, h |-> 0 ]

StateOf(name) ==
    [ name |-> name, id |-> NoImage, start_pos |-> Origin,
      start_scale |-> TexSize, eraser |-> NoEraser ]

Idle == StateOf("Idle")
Drawing == StateOf("Drawing")
DrawingStraight == StateOf("DrawingStraight")
MovingCanvas == StateOf("MovingCanvas")
Erasing_new == StateOf("Erasing")
ModifyingImage(id) == [StateOf("ModifyingImage") EXCEPT !.id = id]
MovingImage_new(id) == [StateOf("MovingImage") EXCEPT !.id = id]
ResizingImage_new(id) == [StateOf("ResizingImage") EXCEPT !.id = id]

Panic(d) == [d EXCEPT !.pc = "panicked"]

\* ------------------------------------------------------------ colours
\* config.colors of length len (never empty), color_idx and brush.color
\* as Scene::new leaves them; overflow_checks tells a build that panics
\* on integer overflow from one that wraps
Brush_new(len, checks) ==
    LET colors == [ i \in 1..len |-> << "color", i >> ]
    IN  [ colors |-> colors, color_idx |-> 0, color |-> colors[1],
          overflow_checks |-> checks ]

\* 2^k mod n
RECURSIVE Pow2Mod(_, _)
Pow2Mod(k, n) == IF k = 0 THEN 1 % n ELSE (2 * Pow2Mod(k - 1, n)) % n

\* usize::MAX % n
UsizeMaxMod(n) == (Pow2Mod(UsizeBits, n) + n - 1) % n

\* Scene::update_color.  color_idx is a usize: 0 - 1 panics where the
\* build checks overflow and is usize::MAX where it does not
update_color(d, forward) ==
    LET b == d.brush
        len == Len(b.colors)
    IN  IF ~forward /\ b.color_idx = 0 /\ b.overflow_checks
        THEN Panic(d)
        ELSE LET idx == IF forward THEN (b.color_idx + 1) % len
                        ELSE IF b.color_idx = 0 THEN UsizeMaxMod(len)
                        ELSE (b.color_idx - 1) % len
             IN  [d EXCEPT !.brush.color_idx = idx,
                           !.brush.color = b.colors[idx + 1]]

\* Idle::try_paste_image, after the texture was created
try_paste_image_reuses(d, m) ==
    LET pos == [x |-> m.x - TexSize \div 2, y |-> m.y - TexSize \div 2]
        z == d.contents.z + 1
        image == Image_new(pos, TexSize, Len(d.contents.images), z,
                           Len(d.trace))
        d1 == [d EXCEPT !.contents.z = z,
                        !.contents.next_image_id = Len(d.contents.images) + 1,
                        !.contents.images = Append(@, image)]
    IN  CommandInvoker_push(d1, PasteImage_new(image))

try_paste_image(d, m) ==
    LET pos == [x |-> m.x - TexSize \div 2, y |-> m.y - TexSize \div 2]
        z == d.contents.z + 1
        image == Image_new(pos, TexSize, d.contents.next_image_id, z, Len(d.trace))
        d1 == [d EXCEPT !.contents.z = z,
                        !.contents.next_image_id = @ + 1,
                        !.contents.images = Append(@, image)]
    IN  CommandInvoker_push(d1, PasteImage_new(image))

Drawing_on_enter(d, m) ==
    [d EXCEPT !.contents.lines = Append(@, Line_new(m, d.contents.z, Len(d.trace)))]

\* a pen-up that records nothing
Drawing_on_exit_silent(d) ==
    IF d.contents.lines = << >> THEN d
    ELSE [d EXCEPT !.contents.lines[Len(d.contents.lines)].finished = TRUE]
\* an on_exit that records the stroke but leaves it open
Drawing_on_exit_unfinished(d) ==
    IF d.contents.lines = << >> THEN d
    ELSE CommandInvoker_push(d,
            DrawLine_new(d.contents.lines[Len(d.contents.lines)]))

Drawing_on_exit(d) ==
    IF d.contents.lines = << >> THEN d
    ELSE LET n == Len(d.contents.lines)
             d1 == [d EXCEPT !.contents.lines[n].finished = TRUE]
         IN  CommandInvoker_push(d1, DrawLine_new(d1.contents.lines[n]))

\* an on_enter that goes on with the line that is there
DrawingStraight_on_enter_no_line(d, m) == d

DrawingStraight_on_enter(d, m) ==
    [d EXCEPT !.contents.lines = Append(@, Line_new(m, d.contents.z, Len(d.trace)))]

\* an on_exit that records the segment but leaves the line open
DrawingStraight_on_exit_open(d, m) ==
    IF d.contents.lines = << >> THEN Panic(d)
    ELSE LET n == Len(d.contents.lines)
             d1 == [d EXCEPT !.contents.lines[n].points = Append(@, m)]
         IN  CommandInvoker_push(d1, DrawLine_new(d1.contents.lines[n]))
DrawingStraight_on_exit(d, m) ==
    IF d.contents.lines = << >> THEN Panic(d)
    ELSE LET n == Len(d.contents.lines)
             d1 == [d EXCEPT !.contents.lines[n].points = Append(@, m),
                             !.contents.lines[n].finished = TRUE]
         IN  CommandInvoker_push(d1, DrawLine_new(d1.contents.lines[n]))

Erasing_on_enter(st, m) ==
    [st EXCEPT !.eraser = [ pos |-> m, w |-> 0, h |-> 0 ]]

\* an eraser commit that leaves the z counter alone
Erasing_on_exit_same_z(st, d) ==
    LET eraser == Eraser_new(st.eraser, d.contents.z, Len(d.trace))
        d1 == [d EXCEPT !.contents.erasers = Append(@, eraser)]
    IN  CommandInvoker_push(d1, AddEraser_new(eraser))
Erasing_on_exit(st, d) ==
    LET eraser == Eraser_new(st.eraser, d.contents.z, Len(d.trace))
        d1 == [d EXCEPT !.contents.erasers = Append(@, eraser),
                        !.contents.z = @ + 1]
    IN  CommandInvoker_push(d1, AddEraser_new(eraser))

ModifyingImage_on_enter(st, d) ==
    IF HasImage(d.contents, st.id)
    THEN [d EXCEPT !.contents.images[ImageIndex(d.contents, st.id)].is_selected
                        = TRUE]
    ELSE Panic(d)

\* The exit that leaves the border on: the selection is never removed.
ModifyingImage_on_exit_keeps_border(st, d) == d
ModifyingImage_on_exit(st, d) ==
    IF HasImage(d.contents, st.id)
    THEN [d EXCEPT !.contents.images[ImageIndex(d.contents, st.id)].is_selected
                        = FALSE]
    ELSE d

ResizingImage_on_enter(st, d) ==
    IF HasImage(d.contents, st.id)
    THEN [ state |-> [st EXCEPT !.start_scale =
                        d.contents.images[ImageIndex(d.contents, st.id)].scale],
           d |-> d ]
    ELSE [ state |-> st, d |-> Panic(d) ]

\* an on_exit that records the scale at exit as the scale to go back to
ResizingImage_on_exit_end_only(st, d) ==
    IF HasImage(d.contents, st.id)
    THEN LET scale == d.contents.images[ImageIndex(d.contents, st.id)].scale
         IN  CommandInvoker_push(d, ResizeImage_new(st.id, scale, scale))
    ELSE Panic(d)

ResizingImage_on_exit(st, d) ==
    IF HasImage(d.contents, st.id)
    THEN CommandInvoker_push(d,
            ResizeImage_new(st.id, st.start_scale,
                d.contents.images[ImageIndex(d.contents, st.id)].scale))
    ELSE Panic(d)

MovingImage_on_enter(st, d) ==
    IF HasImage(d.contents, st.id)
    THEN [ state |-> [st EXCEPT !.start_pos =
                        d.contents.images[ImageIndex(d.contents, st.id)].pos],
           d |-> d ]
    ELSE [ state |-> st, d |-> Panic(d) ]

\* an on_exit that records every move, however short
MovingImage_on_exit_always(st, d) ==
    IF HasImage(d.contents, st.id)
    THEN LET pos == d.contents.images[ImageIndex(d.contents, st.id)].pos
         IN  CommandInvoker_push(d, MoveImage_new(st.id, st.start_pos, pos))
    ELSE Panic(d)

\* MovingImage::on_exit: the move is put on the log when the image ends
\* more than 10 px (camera at zoom 1) from where it started
MovingImage_on_exit(st, d) ==
    IF HasImage(d.contents, st.id)
    THEN LET pos == d.contents.images[ImageIndex(d.contents, st.id)].pos
         IN  IF Dist2(st.start_pos, pos) > 10 * 10
             THEN CommandInvoker_push(d, MoveImage_new(st.id, st.start_pos, pos))
             ELSE d
    ELSE Panic(d)

\* dyn StateHandler dispatch of on_exit and on_enter
on_exit(st, d, m) ==
    CASE st.name = "Drawing" -> Drawing_on_exit(d)
      [] st.name = "DrawingStraight" -> DrawingStraight_on_exit(d, m)
      [] st.name = "Erasing" -> Erasing_on_exit(st, d)
      [] st.name = "ModifyingImage" -> ModifyingImage_on_exit(st, d)
      [] st.name = "ResizingImage" -> ResizingImage_on_exit(st, d)
      [] st.name = "MovingImage" -> MovingImage_on_exit(st, d)
      [] OTHER -> d

on_enter(st, d, m) ==
    CASE st.name = "Drawing" -> [ state |-> st, d |-> Drawing_on_enter(d, m) ]
      [] st.name = "DrawingStraight" ->
            [ state |-> st, d |-> DrawingStraight_on_enter(d, m) ]
      [] st.name = "Erasing" -> [ state |-> Erasing_on_enter(st, m), d |-> d ]
      [] st.name = "ModifyingImage" ->
            [ state |-> st, d |-> ModifyingImage_on_enter(st, d) ]
      [] st.name = "ResizingImage" -> ResizingImage_on_enter(st, d)
      [] st.name = "MovingImage" -> MovingImage_on_enter(st, d)
      [] OTHER -> [ state |-> st, d |-> d ]

\* Transition::Stay / Transition::Switch, with what step did to SceneData
\* and to the handler itself
Stay(st, d, ev) == [ switch |-> FALSE, state |-> st, to |-> st, d |-> d, ev |-> ev ]
SwitchTo(st, new, d, ev) ==
    [ switch |-> TRUE, state |-> st, to |-> new, d |-> d, ev |-> ev ]

\* the frame loop: a Switch runs on_exit of the old state, then on_enter
\* of the new one; a call that does not return leaves the rest undone
ApplyTransition(r, m) ==
    IF r.d.pc # "running" \/ ~r.switch
    THEN [ state |-> r.state, d |-> r.d ]
    ELSE LET d1 == on_exit(r.state, r.d, m)
         IN  IF d1.pc # "running"
             THEN [ state |-> r.state, d |-> d1 ]
             ELSE on_enter(r.to, d1, m)

\* ----------------------------------------------------------- painting
\* StateHandler::draw: images, then lines, then erasers in one Vec,
\* sort_by_key(z) (a stable sort), painted front to back.  Culling by
\* is_visible drops items without reordering the rest; everything is
\* taken to be in view.
Combined(c) ==
    [ i \in 1..Len(c.images) |->
        [ kind |-> "image", idx |-> i, z |-> c.images[i].z,
          born |-> c.images[i].born ] ]
    \o [ i \in 1..Len(c.lines) |->
        [ kind |-> "line", idx |-> i, z |-> c.lines[i].z,
          born |-> c.lines[i].born ] ]
    \o [ i \in 1..Len(c.erasers) |->
        [ kind |-> "eraser", idx |-> i, z |-> c.erasers[i].z,
          born |-> c.erasers[i].born ] ]

\* an unstable insertion: x goes in front of the elements with its key
RECURSIVE InsertByZ_unstable(_, _)
InsertByZ_unstable(sorted, x) ==
    IF sorted = << >> THEN << x >>
    ELSE IF Last(sorted).z < x.z THEN Append(sorted, x)
    ELSE Append(InsertByZ_unstable(Front(sorted), x), Last(sorted))
\* x goes behind every element whose key is not larger
RECURSIVE InsertByZ(_, _)
InsertByZ(sorted, x) ==
    IF sorted = << >> THEN << x >>
    ELSE IF Last(sorted).z <= x.z THEN Append(sorted, x)
    ELSE Append(InsertByZ(Front(sorted), x), Last(sorted))

RECURSIVE sort_by_key(_)
sort_by_key(s) ==
    IF s = << >> THEN << >>
    ELSE InsertByZ(sort_by_key(Front(s)), Last(s))

PaintOrder(c) == sort_by_key(Combined(c))

\* FilledRect::normalized_rect
FilledRect_normalized_rect(r) ==
    LET x == IF r.w < 0 THEN r.pos.x + r.w ELSE r.pos.x
        y == IF r.h < 0 THEN r.pos.y + r.h ELSE r.pos.y
    IN  [ pos |-> [ x |-> x, y |-> y ], w |-> Abs(r.w), h |-> Abs(r.h) ]

\* Bounds for FilledRect (and for Eraser): the box from the origin of the
\* rectangle to its origin plus its size
FilledRect_bounds(r) ==
    [ min |-> r.pos, max |-> [ x |-> r.pos.x + r.w, y |-> r.pos.y + r.h ] ]

\* Drawable for FilledRect: the corner and the size handed to
\* draw_rectangle_v (camera at its default, where to_screen changes nothing)
FilledRect_draw(r) ==
    LET n == FilledRect_normalized_rect(r)
    IN  [ min |-> n.pos, size |-> [ x |-> n.w, y |-> n.h ] ]

\* the culling test: the box and the view overlap
is_in_view(b, view) ==
    /\ b.min.x < view.pos.x + view.w /\ b.max.x > view.pos.x
    /\ b.min.y < view.pos.y + view.h /\ b.max.y > view.pos.y

\* ------------------------------------------------------------ the steps
\* a step that serves the key of the frame before it looks at the buttons
Idle_step_keys_first(st, d, m, left, right, ctrl, action, clip, hit) ==
    LET d1 == CASE action = "Undo" -> CommandInvoker_undo(d)
                [] action = "Redo" -> CommandInvoker_redo(d)
                [] action = "NextColor" -> update_color(d, TRUE)
                [] action = "PrevColor" -> update_color(d, FALSE)
                [] action = "Paste" /\ clip = "ok" -> try_paste_image(d, m)
                [] OTHER -> d
    IN  IF left
        THEN IF ctrl /\ hit # NoImage
             THEN SwitchTo(st, ModifyingImage(hit), d1, "switch")
             ELSE SwitchTo(st, Drawing, d1, "switch")
        ELSE IF right
        THEN IF ctrl
             THEN SwitchTo(st, Erasing_new, d1, "switch")
             ELSE SwitchTo(st, MovingCanvas, d1, "switch")
        ELSE Stay(st, d1, "none")

\* a step that takes the z and the id for the image before the texture
\* is known to load
Idle_step_paste_counts_first(st, d, m, left, right, ctrl, action, clip, hit) ==
    IF left
    THEN IF ctrl /\ hit # NoImage
         THEN SwitchTo(st, ModifyingImage(hit), d, "switch")
         ELSE SwitchTo(st, Drawing, d, "switch")
    ELSE IF right
    THEN IF ctrl
         THEN SwitchTo(st, Erasing_new, d, "switch")
         ELSE SwitchTo(st, MovingCanvas, d, "switch")
    ELSE CASE action = "Undo" -> Stay(st, CommandInvoker_undo(d), "undo")
           [] action = "Redo" -> Stay(st, CommandInvoker_redo(d), "redo")
           [] action = "NextColor" -> Stay(st, update_color(d, TRUE), "none")
           [] action = "PrevColor" -> Stay(st, update_color(d, FALSE), "none")
           [] action = "Paste" ->
                IF clip = "ok"
                THEN Stay(st, try_paste_image(d, m), "paste")
                ELSE IF clip = "texture_err"
                THEN Stay(st, [d EXCEPT !.contents.z = @ + 1,
                                        !.contents.next_image_id = @ + 1],
                          "paste_failed")
                ELSE Stay(st, d, "paste_failed")
           [] OTHER -> Stay(st, d, "none")

\* Idle::step.  hit is what image_under_cursor returned (NoImage for None)
Idle_step(st, d, m, left, right, ctrl, action, clip, hit) ==
    IF left
    THEN IF ctrl /\ hit # NoImage
         THEN SwitchTo(st, ModifyingImage(hit), d, "switch")
         ELSE SwitchTo(st, Drawing, d, "switch")
    ELSE IF right
    THEN IF ctrl
         THEN SwitchTo(st, Erasing_new, d, "switch")
         ELSE SwitchTo(st, MovingCanvas, d, "switch")
    ELSE CASE action = "Undo" -> Stay(st, CommandInvoker_undo(d), "undo")
           [] action = "Redo" -> Stay(st, CommandInvoker_redo(d), "redo")
           [] action = "NextColor" -> Stay(st, update_color(d, TRUE), "none")
           [] action = "PrevColor" -> Stay(st, update_color(d, FALSE), "none")
           [] action = "Paste" ->
                IF clip = "ok"
                THEN Stay(st, try_paste_image(d, m), "paste")
                ELSE Stay(st, d, "paste_failed")
           [] OTHER -> Stay(st, d, "none")

\* Drawing::step
Drawing_step(st, d, m, left, shift) ==
    IF ~left THEN SwitchTo(st, Idle, d, "switch")
    ELSE IF shift THEN SwitchTo(st, DrawingStraight, d, "switch")
    ELSE IF d.contents.lines = << >> THEN Stay(st, Panic(d), "panic")
    ELSE LET n == Len(d.contents.lines)
             line == d.contents.lines[n]
         IN  IF line.finished
             THEN Stay(st, [d EXCEPT !.contents.lines =
                                Append(@, Line_new(m, d.contents.z, Len(d.trace)))],
                       "draw")
             ELSE IF Dist2(Last(line.points), m) >= 5 * 5
             THEN Stay(st, [d EXCEPT !.contents.lines[n].points =
                                Append(@, m)], "draw")
             ELSE Stay(st, d, "draw")

\* DrawingStraight::step
\* a step that extends the line while the segment is held
DrawingStraight_step_extends(st, d, left, shift) ==
    IF ~shift
    THEN IF left THEN SwitchTo(st, Drawing, d, "switch")
         ELSE SwitchTo(st, Idle, d, "switch")
    ELSE IF ~left THEN SwitchTo(st, Idle, d, "switch")
    ELSE Stay(st, [d EXCEPT !.contents.lines[Len(d.contents.lines)].points =
                        Append(@, Last(@))], "none")
DrawingStraight_step(st, d, left, shift) ==
    IF ~shift
    THEN IF left THEN SwitchTo(st, Drawing, d, "switch")
         ELSE SwitchTo(st, Idle, d, "switch")
    ELSE IF ~left THEN SwitchTo(st, Idle, d, "switch")
    ELSE Stay(st, d, "none")

\* a step that goes on panning after the button is up
MovingCanvas_step_never_leaves(st, d, right) == Stay(st, d, "pan")
\* MovingCanvas::step (the pan itself touches the camera only)
MovingCanvas_step(st, d, right) ==
    IF ~right THEN SwitchTo(st, Idle, d, "switch")
    ELSE Stay(st, d, "pan")

\* a step that puts the rectangle into Contents while it is dragged
Erasing_step_commits(st, d, dlt, right, ctrl) ==
    IF ~ctrl \/ ~right THEN SwitchTo(st, Idle, d, "switch")
    ELSE LET grown == [st EXCEPT !.eraser.w = @ + dlt.x,
                                 !.eraser.h = @ + dlt.y]
         IN  Stay(grown,
                  [d EXCEPT !.contents.erasers =
                        Append(@, Eraser_new(grown.eraser, d.contents.z,
                                             Len(d.trace)))],
                  "erase")

\* Erasing::step.  dlt is get_mouse_delta
Erasing_step(st, d, dlt, right, ctrl) ==
    IF ~ctrl \/ ~right THEN SwitchTo(st, Idle, d, "switch")
    ELSE Stay([st EXCEPT !.eraser.w = @ + dlt.x, !.eraser.h = @ + dlt.y],
              d, "erase")

\* a step that trusts the selection without looking under the cursor
ModifyingImage_step_unchecked(st, d, left, right, action, hit) ==
    LET image_under_cursor_differs == FALSE
    IN  IF left
        THEN IF image_under_cursor_differs
             THEN SwitchTo(st, Idle, d, "switch")
             ELSE SwitchTo(st, MovingImage_new(st.id), d, "switch")
        ELSE IF right
        THEN IF image_under_cursor_differs
             THEN SwitchTo(st, Idle, d, "switch")
             ELSE SwitchTo(st, ResizingImage_new(st.id), d, "switch")
        ELSE CASE action = "Remove" ->
                    IF HasImage(d.contents, st.id)
                    THEN LET img == [d.contents.images[
                                        ImageIndex(d.contents, st.id)]
                                     EXCEPT !.is_selected = FALSE]
                             d1 == [d EXCEPT !.contents =
                                        remove_image(@, st.id)]
                         IN  SwitchTo(st, Idle,
                                CommandInvoker_push(d1, RemoveImage_new(img)),
                                "remove")
                    ELSE Stay(st, Panic(d), "panic")
               [] action = "UpLayer" ->
                    Stay(st, [d EXCEPT !.contents = move_image_up(@, st.id)],
                         "layer")
               [] action = "DownLayer" ->
                    Stay(st, [d EXCEPT !.contents = move_image_down(@, st.id)],
                         "layer")
               [] action = "None" -> Stay(st, d, "none")
               [] OTHER -> SwitchTo(st, Idle, d, "switch")

\* a step that keeps the selection of the image it has just removed
ModifyingImage_step_remove_stays(st, d, left, right, action, hit) ==
    LET image_under_cursor_differs == hit # st.id
    IN  IF left
        THEN IF image_under_cursor_differs
             THEN SwitchTo(st, Idle, d, "switch")
             ELSE SwitchTo(st, MovingImage_new(st.id), d, "switch")
        ELSE IF right
        THEN IF image_under_cursor_differs
             THEN SwitchTo(st, Idle, d, "switch")
             ELSE SwitchTo(st, ResizingImage_new(st.id), d, "switch")
        ELSE CASE action = "Remove" ->
                    IF HasImage(d.contents, st.id)
                    THEN LET img == [d.contents.images[
                                        ImageIndex(d.contents, st.id)]
                                     EXCEPT !.is_selected = FALSE]
                             d1 == [d EXCEPT !.contents =
                                        remove_image(@, st.id)]
                         IN  Stay(st, CommandInvoker_push(d1, RemoveImage_new(img)),
                                 "remove")
                    ELSE Stay(st, Panic(d), "panic")
               [] action = "UpLayer" ->
                    Stay(st, [d EXCEPT !.contents = move_image_up(@, st.id)],
                         "layer")
               [] action = "DownLayer" ->
                    Stay(st, [d EXCEPT !.contents = move_image_down(@, st.id)],
                         "layer")
               [] action = "None" -> Stay(st, d, "none")
               [] OTHER -> SwitchTo(st, Idle, d, "switch")

\* a step that serves the keys of Idle itself before it leaves
ModifyingImage_step_serves_keys(st, d, left, right, action, hit) ==
    LET image_under_cursor_differs == hit # st.id
    IN  IF left
        THEN IF image_under_cursor_differs
             THEN SwitchTo(st, Idle, d, "switch")
             ELSE SwitchTo(st, MovingImage_new(st.id), d, "switch")
        ELSE IF right
        THEN IF image_under_cursor_differs
             THEN SwitchTo(st, Idle, d, "switch")
             ELSE SwitchTo(st, ResizingImage_new(st.id), d, "switch")
        ELSE CASE action = "Remove" ->
                    IF HasImage(d.contents, st.id)
                    THEN LET img == [d.contents.images[
                                        ImageIndex(d.contents, st.id)]
                                     EXCEPT !.is_selected = FALSE]
                             d1 == [d EXCEPT !.contents =
                                        remove_image(@, st.id)]
                         IN  SwitchTo(st, Idle,
                                CommandInvoker_push(d1, RemoveImage_new(img)),
                                "remove")
                    ELSE Stay(st, Panic(d), "panic")
               [] action = "UpLayer" ->
                    Stay(st, [d EXCEPT !.contents = move_image_up(@, st.id)],
                         "layer")
               [] action = "DownLayer" ->
                    Stay(st, [d EXCEPT !.contents = move_image_down(@, st.id)],
                         "layer")
               [] action = "None" -> Stay(st, d, "none")
               [] action = "Undo" ->
                    SwitchTo(st, Idle, CommandInvoker_undo(d), "switch")
               [] action = "NextColor" ->
                    SwitchTo(st, Idle, update_color(d, TRUE), "switch")
               [] OTHER -> SwitchTo(st, Idle, d, "switch")
\* ModifyingImage::step
ModifyingImage_step(st, d, left, right, action, hit) ==
    LET image_under_cursor_differs == hit # st.id
    IN  IF left
        THEN IF image_under_cursor_differs
             THEN SwitchTo(st, Idle, d, "switch")
             ELSE SwitchTo(st, MovingImage_new(st.id), d, "switch")
        ELSE IF right
        THEN IF image_under_cursor_differs
             THEN SwitchTo(st, Idle, d, "switch")
             ELSE SwitchTo(st, ResizingImage_new(st.id), d, "switch")
        ELSE CASE action = "Remove" ->
                    IF HasImage(d.contents, st.id)
                    THEN LET img == [d.contents.images[
                                        ImageIndex(d.contents, st.id)]
                                     EXCEPT !.is_selected = FALSE]
                             d1 == [d EXCEPT !.contents =
                                        remove_image(@, st.id)]
                         IN  SwitchTo(st, Idle,
                                CommandInvoker_push(d1, RemoveImage_new(img)),
                                "remove")
                    ELSE Stay(st, Panic(d), "panic")
               [] action = "UpLayer" ->
                    Stay(st, [d EXCEPT !.contents = move_image_up(@, st.id)],
                         "layer")
               [] action = "DownLayer" ->
                    Stay(st, [d EXCEPT !.contents = move_image_down(@, st.id)],
                         "layer")
               [] action = "None" -> Stay(st, d, "none")
               [] OTHER -> SwitchTo(st, Idle, d, "switch")

\* a step that drops the selection when the resize ends
ResizingImage_step_to_idle(st, d, dlt, right) ==
    IF ~right THEN SwitchTo(st, Idle, d, "switch")
    ELSE IF ~HasImage(d.contents, st.id) THEN Stay(st, Panic(d), "panic")
    ELSE Stay(st, [d EXCEPT !.contents.images[ImageIndex(d.contents, st.id)]
                                .scale = ResizeScale(@, dlt)], "resize")

\* ResizingImage::step
ResizingImage_step(st, d, dlt, right) ==
    IF ~right THEN SwitchTo(st, ModifyingImage(st.id), d, "switch")
    ELSE IF ~HasImage(d.contents, st.id) THEN Stay(st, Panic(d), "panic")
    ELSE Stay(st, [d EXCEPT !.contents.images[ImageIndex(d.contents, st.id)]
                                .scale = ResizeScale(@, dlt)], "resize")

\* MovingImage::step
MovingImage_step(st, d, dlt, left) ==
    IF ~left THEN SwitchTo(st, ModifyingImage(st.id), d, "switch")
    ELSE IF ~HasImage(d.contents, st.id) THEN Stay(st, Panic(d), "panic")
    ELSE Stay(st, [d EXCEPT !.contents.images[ImageIndex(d.contents, st.id)]
                                .pos = PointAdd(@, dlt)], "move")

\* ------------------------------------------------------------- the f32
\* The camera's numbers are exact fractions [n, d] in lowest terms with
\* d > 0; d = 0 stands for every non-finite f32 (an infinity or a NaN),
\* which is what a division by 0.0 gives.  Rounding is not modelled.
RECURSIVE GCD(_, _)
GCD(a, b) == IF b = 0 THEN a ELSE GCD(b, a % b)

NonFinite == [ n |-> 0, d |-> 0 ]

Q(n, d) ==
    IF d = 0 THEN NonFinite
    ELSE LET g == GCD(Abs(n), Abs(d))
             sgn == IF d < 0 THEN -1 ELSE 1
         IN  [ n |-> (sgn * n) \div g, d |-> (sgn * d) \div g ]

\* sums over the least common denominator, products cancelled crosswise
QAdd(a, b) ==
    IF a.d = 0 \/ b.d = 0 THEN NonFinite
    ELSE LET g == GCD(a.d, b.d)
         IN  Q(a.n * (b.d \div g) + b.n * (a.d \div g), (a.d \div g) * b.d)

QNeg(a) == [ n |-> 0 - a.n, d |-> a.d ]

QSub(a, b) == QAdd(a, QNeg(b))

QMul(a, b) ==
    IF a.d = 0 \/ b.d = 0 THEN NonFinite
    ELSE LET g1 == GCD(Abs(a.n), b.d)
             g2 == GCD(Abs(b.n), a.d)
         IN  Q((a.n \div g1) * (b.n \div g2), (a.d \div g2) * (b.d \div g1))

\* x / 0.0 is an infinity or a NaN
QDiv(a, b) ==
    IF a.d = 0 \/ b.d = 0 \/ b.n = 0 THEN NonFinite
    ELSE QMul(a, Q(b.d, b.n))

\* a comparison with a non-finite operand is false, as with a NaN
QLe(a, b) == a.d # 0 /\ b.d # 0 /\ QAdd(b, QNeg(a)).n >= 0
QLt(a, b) == a.d # 0 /\ b.d # 0 /\ QAdd(b, QNeg(a)).n > 0

\* f32::clamp
clamp(x, lo, hi) == IF QLt(x, lo) THEN lo ELSE IF QLt(hi, x) THEN hi ELSE x

\* ---------------------------------------------------------- the camera
\* Interpolator::new
Interpolator_new(starting, target, duration_sec) ==
    [ starting |-> starting, current |-> starting, target |-> target,
      duration_sec |-> duration_sec, is_increasing |-> QLt(starting, target) ]

\* an advance that never answers None: arrived, it reports a step of 0
Interpolator_advance_never_none(i, dt) ==
    LET tol == Q(1, 1000)
    IN  IF \/ i.is_increasing /\ QLe(i.target, QAdd(i.current, tol))
           \/ ~i.is_increasing /\ QLe(i.current, QAdd(i.target, tol))
        THEN [ some |-> TRUE, delta |-> Q(0, 1), interp |-> i ]
        ELSE LET delta == IF i.duration_sec = Q(0, 1)
                          THEN QSub(i.target, i.starting)
                          ELSE QMul(QDiv(QSub(i.target, i.starting),
                                         i.duration_sec), dt)
             IN  [ some |-> TRUE, delta |-> delta,
                   interp |-> [i EXCEPT !.current = QAdd(@, delta)] ]
\* Interpolator::advance: [some, delta, interp], some = FALSE for None
Interpolator_advance(i, dt) ==
    LET tol == Q(1, 1000)
    IN  IF \/ i.is_increasing /\ QLe(i.target, QAdd(i.current, tol))
           \/ ~i.is_increasing /\ QLe(i.current, QAdd(i.target, tol))
        THEN [ some |-> FALSE, delta |-> Q(0, 1),
               interp |-> [i EXCEPT !.starting = i.target] ]
        ELSE LET delta == IF i.duration_sec = Q(0, 1)
                          THEN QSub(i.target, i.starting)
                          ELSE QMul(QDiv(QSub(i.target, i.starting),
                                         i.duration_sec), dt)
             IN  [ some |-> TRUE, delta |-> delta,
                   interp |-> [i EXCEPT !.current = QAdd(@, delta)] ]

\* Camera::default
Camera_default ==
    [ zoom |-> Q(1, 1),
      pos |-> [ x |-> Q(0, 1), y |-> Q(0, 1) ],
      zoom_interp |-> Interpolator_new(Q(1, 1), Q(1, 1), Q(0, 1)),
      pos_x_interp |-> Interpolator_new(Q(0, 1), Q(0, 1), Q(0, 1)),
      pos_y_interp |-> Interpolator_new(Q(0, 1), Q(0, 1), Q(0, 1)) ]

\* Camera::update_zoom
Camera_update_zoom(cam, target) ==
    [cam EXCEPT !.zoom_interp = Interpolator_new(cam.zoom, target, Q(7, 100))]

\* Camera::update_pos
Camera_update_pos(cam, mouse_delta) ==
    LET new_pos == [ x |-> QSub(cam.pos.x, QDiv(mouse_delta.x, cam.zoom)),
                     y |-> QSub(cam.pos.y, QDiv(mouse_delta.y, cam.zoom)) ]
    IN  [cam EXCEPT
            !.pos_x_interp = Interpolator_new(cam.pos.x, new_pos.x, Q(0, 1)),
            !.pos_y_interp = Interpolator_new(cam.pos.y, new_pos.y, Q(0, 1))]

\* an update that animates the zoom without moving the origin
Camera_update_unanchored(cam, dt, m) ==
    LET ax == Interpolator_advance(cam.pos_x_interp, dt)
        ay == Interpolator_advance(cam.pos_y_interp, dt)
        az == Interpolator_advance(cam.zoom_interp, dt)
        px == IF ax.some THEN QAdd(cam.pos.x, ax.delta) ELSE cam.pos.x
        py == IF ay.some THEN QAdd(cam.pos.y, ay.delta) ELSE cam.pos.y
        prev_zoom == cam.zoom
    IN  IF az.some
        THEN LET zoom == QAdd(cam.zoom, az.delta)
                 x == px
                 y == py
             IN  [ zoom |-> zoom,
                   pos |-> [ x |-> x, y |-> y ],
                   zoom_interp |-> az.interp,
                   pos_x_interp |-> Interpolator_new(x, x, Q(0, 1)),
                   pos_y_interp |-> Interpolator_new(y, y, Q(0, 1)) ]
        ELSE [ zoom |-> cam.zoom,
               pos |-> [ x |-> px, y |-> py ],
               zoom_interp |-> az.interp,
               pos_x_interp |-> ax.interp,
               pos_y_interp |-> ay.interp ]
\* Camera::update, dt the frame time and m the mouse position (width and
\* height, which nothing here reads, are left out)
Camera_update(cam, dt, m) ==
    LET ax == Interpolator_advance(cam.pos_x_interp, dt)
        ay == Interpolator_advance(cam.pos_y_interp, dt)
        az == Interpolator_advance(cam.zoom_interp, dt)
        px == IF ax.some THEN QAdd(cam.pos.x, ax.delta) ELSE cam.pos.x
        py == IF ay.some THEN QAdd(cam.pos.y, ay.delta) ELSE cam.pos.y
        prev_zoom == cam.zoom
    IN  IF az.some
        THEN LET zoom == QAdd(cam.zoom, az.delta)
                 k == QSub(QDiv(Q(1, 1), zoom), QDiv(Q(1, 1), prev_zoom))
                 x == QSub(px, QMul(m.x, k))
                 y == QSub(py, QMul(m.y, k))
             IN  [ zoom |-> zoom,
                   pos |-> [ x |-> x, y |-> y ],
                   zoom_interp |-> az.interp,
                   pos_x_interp |-> Interpolator_new(x, x, Q(0, 1)),
                   pos_y_interp |-> Interpolator_new(y, y, Q(0, 1)) ]
        ELSE [ zoom |-> cam.zoom,
               pos |-> [ x |-> px, y |-> py ],
               zoom_interp |-> az.interp,
               pos_x_interp |-> ax.interp,
               pos_y_interp |-> ay.interp ]

\* Scene::update_zoom, with scroll_sensitivity 1; signum is 1 or -1
Scene_update_zoom(cam, signum) ==
    Camera_update_zoom(cam,
        clamp(QMul(cam.zoom, QAdd(Q(1, 1), Q(signum, 4))),
              Q(1, 10), Q(10, 1)))

\* ------------------------------------------------------ Transformable
\* Length and Vector (by component), canvas to screen and back
Length_to_screen(v, cam) == QMul(v, cam.zoom)
Length_to_canvas(v, cam) == QDiv(v, cam.zoom)
Vector_to_screen(v, cam) ==
    [ x |-> QMul(v.x, cam.zoom), y |-> QMul(v.y, cam.zoom) ]
Vector_to_canvas(v, cam) ==
    [ x |-> QDiv(v.x, cam.zoom), y |-> QDiv(v.y, cam.zoom) ]

\* Point
Point_to_screen(p, cam) ==
    [ x |-> QMul(QSub(p.x, cam.pos.x), cam.zoom),
      y |-> QMul(QSub(p.y, cam.pos.y), cam.zoom) ]
\* a way back that divides by the zoom and forgets the origin
Point_to_canvas_unshifted(p, cam) ==
    [ x |-> QDiv(p.x, cam.zoom), y |-> QDiv(p.y, cam.zoom) ]
Point_to_canvas(p, cam) ==
    [ x |-> QAdd(QDiv(p.x, cam.zoom), cam.pos.x),
      y |-> QAdd(QDiv(p.y, cam.zoom), cam.pos.y) ]

\* Rect
Rect_to_screen(r, cam) ==
    [ pos |-> Point_to_screen(r.pos, cam),
      w |-> Length_to_screen(r.w, cam), h |-> Length_to_screen(r.h, cam) ]
Rect_to_canvas(r, cam) ==
    [ pos |-> Point_to_canvas(r.pos, cam),
      w |-> Length_to_canvas(r.w, cam), h |-> Length_to_canvas(r.h, cam) ]

\* Interpolator::advance would return None, whatever the frame time
AtRest(i) == ~Interpolator_advance(i, Q(1, 1)).some

\* a camera whose zoom can be divided by and whose numbers are finite
Usable(cam) ==
    /\ cam.zoom.d # 0 /\ cam.zoom.n # 0
    /\ cam.pos.x.d # 0 /\ cam.pos.y.d # 0

\* ----------------------------------------------------------- the frames
D == [ contents |-> contents, command_invoker |-> command_invoker,
       pc |-> pc, trace |-> trace, brush |-> brush ]

\* what the inverse law compares: the point sequences of the lines, the
\* set of images with pos, scale and z, and the erasers
Obs(c) ==
    [ lines |-> [ i \in 1..Len(c.lines) |-> c.lines[i].points ],
      images |-> { [ id |-> c.images[i].id, pos |-> c.images[i].pos,
                     scale |-> c.images[i].scale, z |-> c.images[i].z ] :
                   i \in 1..Len(c.images) },
      erasers |-> [ i \in 1..Len(c.erasers) |->
                      [ rect |-> c.erasers[i].rect, z |-> c.erasers[i].z ] ] ]

\* hist.anchor of a run of SpecCamera: the mouse position m of the last
\* zoom scroll and the canvas point d that was under it, for as long as
\* the mouse has stayed at m and the canvas was not panned
QPoint(p) == [ x |-> Q(p.x, 1), y |-> Q(p.y, 1) ]
NoAnchor == [ set |-> FALSE, m |-> Origin, d |-> QPoint(Origin) ]

\* hist.mode names the run: "free" (every input but the layer keys),
\* "layers" (every input but undo and redo), "law" (n edits, then n
\* undos, then n redos), "gestures" (draw, paste and erase only) or
\* "images" (paste, select, move, resize and remove, with the mouse at
\* the positions of NearPts too); "camera" (wheel, pan and frame times),
\* "erasers" (eraser drags in both directions), "colors" (colour keys and
\* strokes) and "pastes" (paste, select, remove, undo and redo, with one
\* push more than MaxPushes)
HistOf(mode) ==
    [ mode |-> mode, phase |-> "edit", undone |-> 0, redone |-> 0,
      snap |-> Obs(Contents_new), frames |-> 0, anchor |-> NoAnchor ]

\* the states that cannot be left without a push
Committing == { "Drawing", "DrawingStraight", "Erasing", "ResizingImage" }

\* a run makes at most `budget` pushes, and starts no gesture that could
\* only end with one more
WithinBudget(fin, budget) ==
    /\ Len(fin.d.trace) <= budget
    /\ Len(fin.d.trace) = budget => fin.state.name \notin Committing

\* the frames a run of its mode may take
ModeAllows(r, fin) ==
    CASE hist.mode = "free" ->
            /\ WithinBudget(fin, MaxPushes)
            /\ r.ev # "layer"
      [] hist.mode = "layers" ->
            /\ WithinBudget(fin, MaxPushes)
            /\ r.ev \notin { "undo", "redo" }
      [] hist.mode = "gestures" ->
            /\ WithinBudget(fin, MaxGestures)
            /\ r.ev \notin { "undo", "redo" }
            /\ fin.state.name # "ModifyingImage"
      [] hist.mode = "images" ->
            /\ WithinBudget(fin, MaxPushes)
            /\ r.ev \notin { "undo", "redo", "layer" }
            /\ fin.state.name \notin
                    { "Drawing", "DrawingStraight", "MovingCanvas", "Erasing" }
      [] hist.mode = "erasers" ->
            /\ WithinBudget(fin, MaxPushes)
            /\ r.ev \notin { "undo", "redo", "layer" }
            /\ fin.state.name \in { "Idle", "Erasing" }
            /\ fin.d.contents.images = << >>
      [] hist.mode = "colors" ->
            /\ WithinBudget(fin, MaxPushes)
            /\ r.ev \notin { "undo", "redo", "layer", "paste", "paste_failed" }
            /\ fin.state.name \in { "Idle", "Drawing" }
      [] hist.mode = "pastes" ->
            /\ WithinBudget(fin, MaxPushes + 1)
            /\ r.ev # "layer"
            /\ fin.state.name \in { "Idle", "ModifyingImage" }
      [] hist.mode = "law" ->
            /\ WithinBudget(fin, MaxLawEdits)
            /\ r.ev # "layer"
            /\ hist.phase # "edit" => r.ev \in { "undo", "redo" }
            /\ r.ev = "undo" =>
                    /\ hist.phase \in { "edit", "undo" }
                    /\ command_invoker.undos # << >>
            /\ r.ev = "redo" =>
                    /\ \/ hist.phase = "redo"
                       \/ hist.phase = "undo" /\ hist.undone = Len(trace)
                    /\ command_invoker.redos # << >>

NextHist(r, fin) ==
    IF hist.mode # "law" THEN hist
    ELSE CASE r.ev = "undo" ->
                [hist EXCEPT !.phase = "undo", !.undone = @ + 1,
                             !.snap = IF hist.phase = "edit"
                                      THEN Obs(contents) ELSE @]
           [] r.ev = "redo" ->
                [hist EXCEPT !.phase = "redo", !.redone = @ + 1]
           [] OTHER -> hist

\* get_mouse_delta is read by the steps of these states only; elsewhere
\* the last position is not kept
DeltaReaders == { "Erasing", "ResizingImage", "MovingImage" }

\* one frame: step, then the transition it asked for
Frame(r, m) ==
    LET fin == ApplyTransition(r, m)
    IN  /\ ModeAllows(r, fin)
        /\ \A i \in 1..Len(fin.d.contents.lines) :
                Len(fin.d.contents.lines[i].points) <= MaxPoints
        /\ Len(fin.d.contents.images) <= MaxImages
        /\ contents' = fin.d.contents
        /\ command_invoker' = fin.d.command_invoker
        /\ pc' = fin.d.pc
        /\ trace' = fin.d.trace
        /\ state' = fin.state
        /\ mouse' = IF fin.state.name \in DeltaReaders THEN m ELSE Origin
        /\ camera' = camera
        /\ brush' = fin.d.brush
        /\ hist' = NextHist(r, fin)

Running(name) == pc = "running" /\ state.name = name

\* An input a step does not read is left at FALSE / "None" / Origin: the
\* frames that differ only there are the same frame.
PtsIf(read) ==
    IF ~read THEN { Origin }
    ELSE IF hist.mode = "images" THEN MousePts \cup NearPts
    ELSE IF hist.mode = "erasers" THEN { Origin } \cup DragPts
    ELSE MousePts

IdleStep ==
    /\ Running("Idle")
    /\ \E left \in BOOLEAN :
       \E right \in (IF left THEN { FALSE } ELSE BOOLEAN) :
       \E ctrl \in (IF left \/ right THEN BOOLEAN ELSE { FALSE }),
          action \in (IF left \/ right THEN { "None" } ELSE Actions) :
       \E clip \in (IF action = "Paste" THEN ClipOutcomes ELSE { "no_clipboard" }) :
       \E m \in PtsIf(left \/ (right /\ ctrl) \/ clip = "ok") :
       \E hit \in (IF left /\ ctrl THEN HitChoices(contents, m) ELSE { NoImage }) :
            Frame(Idle_step(state, D, m, left, right, ctrl, action, clip, hit), m)

DrawingStep ==
    /\ Running("Drawing")
    /\ \E left \in BOOLEAN :
       \E shift \in (IF left THEN BOOLEAN ELSE { FALSE }), m \in PtsIf(left) :
            Frame(Drawing_step(state, D, m, left, shift), m)

DrawingStraightStep ==
    /\ Running("DrawingStraight")
    /\ \E left, shift \in BOOLEAN :
       \E m \in PtsIf(~(left /\ shift)) :
            Frame(DrawingStraight_step(state, D, left, shift), m)

MovingCanvasStep ==
    /\ Running("MovingCanvas")
    /\ \E right \in BOOLEAN :
            Frame(MovingCanvas_step(state, D, right), Origin)

ErasingStep ==
    /\ Running("Erasing")
    /\ \E right \in BOOLEAN :
       \E ctrl \in (IF right THEN BOOLEAN ELSE { FALSE }) :
       \E m \in PtsIf(right /\ ctrl) :
            Frame(Erasing_step(state, D, PointSub(m, mouse), right, ctrl), m)

ModifyingImageStep ==
    /\ Running("ModifyingImage")
    /\ \E left \in BOOLEAN :
       \E right \in (IF left THEN { FALSE } ELSE BOOLEAN) :
       \E action \in (IF left \/ right THEN { "None" } ELSE Actions),
          m \in PtsIf(left \/ right) :
       \E hit \in (IF left \/ right THEN HitChoices(contents, m) ELSE { NoImage }) :
            Frame(ModifyingImage_step(state, D, left, right, action, hit), m)

ResizingImageStep ==
    /\ Running("ResizingImage")
    /\ \E right \in BOOLEAN :
       \E m \in PtsIf(right) :
            Frame(ResizingImage_step(state, D, PointSub(m, mouse), right), m)

MovingImageStep ==
    /\ Running("MovingImage")
    /\ \E left \in BOOLEAN :
       \E m \in PtsIf(left) :
            Frame(MovingImage_step(state, D, PointSub(m, mouse), left), m)

\* Idle::step, the mouse wheel
Idle_step_scroll(cam, scroll_y, ctrl) ==
    IF scroll_y # 0
    THEN IF ctrl THEN cam   \* update_thickness
         ELSE Scene_update_zoom(cam, IF scroll_y > 0 THEN 1 ELSE -1)
    ELSE cam

\* MovingCanvas::step, the camera
MovingCanvas_step_pan(cam, right, mouse_delta) ==
    IF ~right THEN cam ELSE Camera_update_pos(cam, mouse_delta)

\* one frame of a run of SpecCamera: Camera::update has advanced the
\* animations, then step ran and set cam; every frame keeps the mouse
\* position for the next get_mouse_delta
CameraFrame(r, m, cam, anchor) ==
    LET fin == ApplyTransition(r, m)
    IN  /\ hist.mode = "camera"
        /\ hist.frames < MaxFrames
        /\ contents' = fin.d.contents
        /\ command_invoker' = fin.d.command_invoker
        /\ pc' = fin.d.pc
        /\ trace' = fin.d.trace
        /\ state' = fin.state
        /\ mouse' = m
        /\ camera' = cam
        /\ brush' = fin.d.brush
        /\ hist' = [hist EXCEPT !.frames = @ + 1, !.anchor = anchor]

KeepAnchor(m) ==
    IF hist.anchor.set /\ hist.anchor.m = m THEN hist.anchor ELSE NoAnchor

\* Idle with no key: nothing, the wheel, or the right button
CameraIdleStep ==
    /\ Running("Idle")
    /\ \E dt \in FrameTimes, m \in CursorPts, right \in BOOLEAN :
       \E scroll_y \in (IF right THEN { 0 } ELSE { -1, 0, 1 }) :
       \E ctrl \in (IF scroll_y # 0 THEN BOOLEAN ELSE { FALSE }) :
            LET cam1 == Camera_update(camera, Q(dt[1], dt[2]), QPoint(m))
                cam2 == IF right THEN cam1
                        ELSE Idle_step_scroll(cam1, scroll_y, ctrl)
                zooms == ~right /\ scroll_y # 0 /\ ~ctrl
            IN  CameraFrame(Idle_step(state, D, m, FALSE, right, FALSE,
                                      "None", "no_clipboard", NoImage),
                            m, cam2,
                            IF zooms
                            THEN [ set |-> TRUE, m |-> m,
                                   d |-> Point_to_canvas(QPoint(m), cam2) ]
                            ELSE KeepAnchor(m))

\* MovingCanvas: the drag goes on, or the button is up
CameraPanStep ==
    /\ Running("MovingCanvas")
    /\ \E dt \in FrameTimes, m \in CursorPts, right \in BOOLEAN :
            LET cam1 == Camera_update(camera, Q(dt[1], dt[2]), QPoint(m))
            IN  CameraFrame(MovingCanvas_step(state, D, right), m,
                            MovingCanvas_step_pan(cam1, right,
                                                  QPoint(PointSub(m, mouse))),
                            IF right THEN NoAnchor ELSE KeepAnchor(m))

InitOf(mode) ==
    /\ contents = Contents_new
    \* SpecCamera, SpecErasers and SpecColors look at no log: one capacity
    /\ \E buffer_size \in (IF mode \in { "camera", "zooms", "erasers", "colors" }
                          THEN { MaxCap } ELSE 0..MaxCap) :
            command_invoker = CommandInvoker_new(buffer_size)
    /\ state = Idle
    /\ mouse = Origin
    /\ pc = "running"
    /\ trace = << >>
    /\ camera = Camera_default
    \* a palette and a build; SpecPastes has two colours, the other
    \* specifications but SpecColors one colour, where the colour keys
    \* change nothing, and a build without overflow checks
    /\ \E len \in (IF mode = "colors" THEN 1..MaxColors
                   ELSE IF mode = "pastes" THEN { 2 } ELSE { 1 }),
          checks \in (IF mode = "colors" THEN BOOLEAN ELSE { FALSE }) :
            brush = Brush_new(len, checks)
    /\ hist = HistOf(mode)

Init == InitOf("free")
InitLaw == InitOf("law")
InitLayers == InitOf("layers")
InitGestures == InitOf("gestures")
InitImages == InitOf("images")
InitCamera == InitOf("camera")
InitErasers == InitOf("erasers")
InitColors == InitOf("colors")
InitPastes == InitOf("pastes")
InitZooms == InitOf("zooms")

Next ==
    \/ IdleStep
    \/ DrawingStep
    \/ DrawingStraightStep
    \/ MovingCanvasStep
    \/ ErasingStep
    \/ ModifyingImageStep
    \/ ResizingImageStep
    \/ MovingImageStep

NextGestures ==
    \/ IdleStep
    \/ DrawingStep
    \/ DrawingStraightStep
    \/ MovingCanvasStep
    \/ ErasingStep

NextImages ==
    \/ IdleStep
    \/ ModifyingImageStep
    \/ ResizingImageStep
    \/ MovingImageStep

Spec == Init /\ [][Next]_vars
SpecLaw == InitLaw /\ [][Next]_vars
SpecLayers == InitLayers /\ [][Next]_vars
SpecGestures == InitGestures /\ [][NextGestures]_vars
SpecImages == InitImages /\ [][NextImages]_vars

NextErasers ==
    \/ IdleStep
    \/ ErasingStep

SpecErasers == InitErasers /\ [][NextErasers]_vars

NextColors ==
    \/ IdleStep
    \/ DrawingStep

SpecColors == InitColors /\ [][NextColors]_vars

NextPastes ==
    \/ IdleStep
    \/ ModifyingImageStep

SpecPastes == InitPastes /\ [][NextPastes]_vars

NextCamera ==
    \/ CameraIdleStep
    \/ CameraPanStep

SpecCamera == InitCamera /\ [][NextCamera]_vars

\* ------------------------------------------------- the zoom animation
\* A run of SpecZooms is a run of frames in Idle with no button and no
\* key: Camera::update advances the animations in every frame, and the
\* wheel, turned in at most MaxZooms of them, re-arms the zoom.  The
\* frames that only advance are not counted, so a run goes on for as long
\* as the loop does; the loop runs a frame whenever one can run, which is
\* the fairness of SpecZooms.
ZoomFrame(m, cam, wheel) ==
    LET fin == ApplyTransition(Idle_step(state, D, m, FALSE, FALSE, FALSE,
                                         "None", "no_clipboard", NoImage), m)
    IN  /\ hist.mode = "zooms"
        /\ wheel => hist.frames < MaxZooms
        /\ contents' = fin.d.contents
        /\ command_invoker' = fin.d.command_invoker
        /\ pc' = fin.d.pc
        /\ trace' = fin.d.trace
        /\ state' = fin.state
        /\ mouse' = m
        /\ camera' = cam
        /\ brush' = fin.d.brush
        /\ hist' = [hist EXCEPT !.frames = IF wheel THEN @ + 1 ELSE @]

\* a frame with the wheel turned: Scene::update_zoom re-arms the
\* animation.  The cursor rests at the origin of the window, where the
\* zoom pulls nothing along.
ZoomScrollStep ==
    /\ Running("Idle")
    /\ \E dt \in FrameTimes, scroll_y \in { -1, 1 } :
            ZoomFrame(Origin,
                      Idle_step_scroll(Camera_update(camera, Q(dt[1], dt[2]),
                                                     QPoint(Origin)),
                                       scroll_y, FALSE),
                      TRUE)

\* a frame with no zoom input: the animations advance by the frame time
ZoomTickStep ==
    /\ Running("Idle")
    /\ \E dt \in FrameTimes :
            ZoomFrame(Origin,
                      Camera_update(camera, Q(dt[1], dt[2]), QPoint(Origin)),
                      FALSE)

NextZooms ==
    \/ ZoomScrollStep
    \/ ZoomTickStep

\* a frame without zoom input would change the state: the condition under
\* which << ZoomTickStep >>_vars is enabled (such a frame changes nothing
\* but the camera)
ZoomTickEnabled ==
    /\ Running("Idle")
    /\ hist.mode = "zooms"
    /\ \E dt \in FrameTimes :
            Camera_update(camera, Q(dt[1], dt[2]), QPoint(Origin)) # camera

\* weak fairness of ZoomTickStep, with its enabling condition written out
\* as the state predicate above
SpecZooms ==
    /\ InitZooms
    /\ [][NextZooms]_vars
    /\ ( []<>~ZoomTickEnabled \/ []<><< ZoomTickStep >>_vars )

\* ------------------------------------------------------------ the frames
\* of Idle that run CommandInvoker::undo and CommandInvoker::redo
UndoFrame ==
    /\ Running("Idle")
    /\ Frame(Idle_step(state, D, Origin, FALSE, FALSE, FALSE, "Undo",
                        "no_clipboard", NoImage), Origin)

RedoFrame ==
    /\ Running("Idle")
    /\ Frame(Idle_step(state, D, Origin, FALSE, FALSE, FALSE, "Redo",
                        "no_clipboard", NoImage), Origin)

undos == command_invoker.undos
redos == command_invoker.redos
buffer_size == command_invoker.buffer_size

\* ------------------------------------------------------------ properties

\* C1: n edits from the empty Contents, n <= undo_buffer_size, then n
\* undos and n redos give the Contents that the n edits left: the same
\* point sequences, the same set of images (pos, scale, z), the same
\* erasers.
C1_UndoRedoInverse ==
    ( /\ hist.mode = "law"
      /\ hist.phase = "redo"
      /\ hist.redone = Len(trace)
      /\ Len(trace) <= buffer_size )
    => Obs(contents) = hist.snap

\* two edits were made, undone and redone
C1_Witness ==
    /\ hist.mode = "law"
    /\ hist.phase = "redo"
    /\ hist.redone = Len(trace)
    /\ Len(trace) = 2
    /\ Len(trace) <= buffer_size
    /\ contents.images # << >>

\* C2: for every capacity the config accepts, capacity + k pushes leave
\* exactly the `capacity` newest commands to undo, and undoing them
\* leaves nothing more to undo (checked in runs of edits followed by
\* undos).
C2_BoundedHistory ==
    hist.mode = "law" =>
        LET kept == LastN(trace, Min(buffer_size, Len(trace)))
        IN  /\ pc = "running"
            /\ hist.phase = "edit" => undos = kept
            /\ hist.phase = "undo" =>
                    /\ hist.undone <= Len(kept)
                    /\ undos = SubSeq(kept, 1, Len(kept) - hist.undone)

\* C3: each log holds at most undo_buffer_size commands.
C3_LogsBounded ==
    /\ Len(undos) <= buffer_size
    /\ Len(redos) <= buffer_size

\* the undo log is full after a command was evicted, the redo log is in use
C3_Witness ==
    /\ buffer_size = 1
    /\ Len(trace) = 2
    /\ Len(undos) = 1
    /\ Len(redos) = 1

\* C4: a frame that pushes a fresh edit leaves the redo log as it was.
C4_PushKeepsRedo ==
    [][ Len(trace') > Len(trace) => redos' = redos ]_vars

\* the first edit was undone, then a second edit was pushed, and the
\* first is still there to redo
C4_Witness ==
    /\ Len(trace) = 2
    /\ buffer_size = 2
    /\ redos = << trace[1] >>
    /\ undos = << trace[2] >>

\* C5: undo moves the newest command of the undo log to the back of the
\* redo log and applies its undo; redo moves the newest command of the
\* redo log to the back of the undo log and applies its execute; with an
\* empty source log nothing changes.
C5_UndoRedoTransfer ==
    [][ /\ UndoFrame =>
            IF undos = << >>
            THEN UNCHANGED << contents, command_invoker >>
            ELSE /\ undos' = Front(undos)
                 /\ redos' # << >>
                 /\ Last(redos') = Last(undos)
                 /\ Front(redos') = IF Len(redos) >= buffer_size
                                     THEN Tail(redos) ELSE redos
                 /\ contents' = Command_undo(Last(undos), contents)
        /\ RedoFrame =>
            IF redos = << >>
            THEN UNCHANGED << contents, command_invoker >>
            ELSE /\ redos' = Front(redos)
                 /\ undos' # << >>
                 /\ Last(undos') = Last(redos)
                 /\ Front(undos') = IF Len(undos) >= buffer_size
                                     THEN Tail(undos) ELSE undos
                 /\ contents' = Command_execute(Last(redos), contents)
      ]_vars

\* one of two commands was undone: both logs are in use
C5_Witness ==
    /\ Len(trace) = 2
    /\ buffer_size = 2
    /\ undos = << trace[1] >>
    /\ redos = << trace[2] >>

\* what a viewer sees of Contents: the painted items front to back
PaintView(c) ==
    LET order == PaintOrder(c)
    IN  [ i \in 1..Len(order) |->
            CASE order[i].kind = "image" ->
                    LET img == c.images[order[i].idx]
                    IN  << "image", img.id, img.pos, img.scale, img.z >>
              [] order[i].kind = "line" ->
                    LET line == c.lines[order[i].idx]
                    IN  << "line", line.points, line.z >>
              [] order[i].kind = "eraser" ->
                    LET eraser == c.erasers[order[i].idx]
                    IN  << "eraser", eraser.rect, eraser.z >> ]

Restores(cmd, c) ==
    PaintView(Command_undo(cmd, Command_execute(cmd, c))) = PaintView(c)

ScalePts == { TexSize, 2 * TexSize }
IdPts == 0..MaxImages

\* C6: for each command variant and each reachable Contents in which it
\* applies (a fresh line, image or eraser to add; an image of the
\* document to remove, resize or move from its current scale or pos),
\* execute followed by undo gives back the same painted sequence: the
\* same items in the same paint order, ties included.
C6_ExecuteUndoRestores ==
    /\ \A m \in MousePts :
        /\ Restores(DrawLine_new(Line_new(m, contents.z, 0)), contents)
        /\ Restores(PasteImage_new(Image_new(m, TexSize,
                        contents.next_image_id, contents.z + 1, 0)), contents)
        /\ Restores(AddEraser_new(Eraser_new([ pos |-> m, w |-> 12, h |-> 12 ],
                        contents.z, 0)), contents)
    /\ \A i \in 1..Len(contents.images) :
        LET img == contents.images[ImageIndex(contents, contents.images[i].id)]
        IN  /\ Restores(RemoveImage_new([img EXCEPT !.is_selected = FALSE]),
                        contents)
            /\ \A e \in ScalePts :
                Restores(ResizeImage_new(img.id, img.scale, e), contents)
            /\ \A e \in MousePts :
                Restores(MoveImage_new(img.id, img.pos, e), contents)

\* the fields of c that a resize or a move of the image at index k may
\* not touch
Others(c, k) ==
    [ c EXCEPT !.images = [ i \in 1..Len(c.images) |->
                              IF i = k
                              THEN [ c.images[i] EXCEPT !.scale = 0,
                                                        !.pos = Origin ]
                              ELSE c.images[i] ] ]

\* C7: ResizeImage(id, start, end) and MoveImage(id, start, end): execute
\* sets the scale / pos of the image with that id to end, undo sets it
\* to start, nothing else in Contents changes, and with no such image
\* both leave Contents as it is.
C7_ResizeMoveSetExactly ==
    \A id \in IdPts :
        LET k == ImageIndex(contents, id)
        IN  /\ \A s \in ScalePts, e \in ScalePts :
                LET cmd == ResizeImage_new(id, s, e)
                    ex == Command_execute(cmd, contents)
                    un == Command_undo(cmd, ex)
                IN  IF k = 0 THEN ex = contents /\ un = contents
                    ELSE /\ ex.images[k].scale = e
                         /\ un.images[k].scale = s
                         /\ ex.images[k].pos = contents.images[k].pos
                         /\ un.images[k].pos = contents.images[k].pos
                         /\ Others(ex, k) = Others(contents, k)
                         /\ Others(un, k) = Others(contents, k)
            /\ \A s \in MousePts, e \in MousePts :
                LET cmd == MoveImage_new(id, s, e)
                    ex == Command_execute(cmd, contents)
                    un == Command_undo(cmd, ex)
                IN  IF k = 0 THEN ex = contents /\ un = contents
                    ELSE /\ ex.images[k].pos = e
                         /\ un.images[k].pos = s
                         /\ ex.images[k].scale = contents.images[k].scale
                         /\ un.images[k].scale = contents.images[k].scale
                         /\ Others(ex, k) = Others(contents, k)
                         /\ Others(un, k) = Others(contents, k)

\* an image in the document, an id that is absent, and a resize of the
\* image that was made and undone
C7_Witness ==
    /\ Len(contents.images) = 1
    /\ \E id \in IdPts : ~HasImage(contents, id)
    /\ redos # << >>
    /\ Last(redos).kind = "ResizeImage"
    /\ Last(redos).start_scale # Last(redos).end_scale
    /\ ImageIndex(contents, Last(redos).id) = 1
    /\ contents.images[1].scale = Last(redos).start_scale

lines == contents.lines

\* C8: a Drawing session adds one unfinished line on the press, adds no
\* line while the pointer moves, and on the release marks that line
\* finished and pushes one DrawLine holding it (read for a push that
\* returns); an undo of a DrawLine takes the last line away and a redo
\* of it appends one line with the recorded point sequence.
C8_DrawingSession ==
    [][ /\ (Running("Idle") /\ state'.name = "Drawing") =>
            /\ Len(lines') = Len(lines) + 1
            /\ Front(lines') = lines
            /\ ~Last(lines').finished
            /\ Len(Last(lines').points) = 1
            /\ trace' = trace
        /\ (Running("Drawing") /\ state'.name = "Drawing"
                               /\ pc' = "running") =>
            /\ Len(lines') = Len(lines)
            /\ Front(lines') = Front(lines)
            /\ ~Last(lines').finished
            /\ trace' = trace
        /\ (Running("Drawing") /\ state'.name = "Idle"
                               /\ pc' = "running") =>
            /\ Len(lines') = Len(lines)
            /\ Front(lines') = Front(lines)
            /\ Last(lines').finished
            /\ Last(lines').points = Last(lines).points
            /\ trace' = Append(trace, DrawLine_new(Last(lines')))
            /\ undos' # << >>
            /\ Last(undos') = DrawLine_new(Last(lines'))
            /\ Len(undos') <= Len(undos) + 1
        /\ (UndoFrame /\ undos # << >> /\ Last(undos).kind = "DrawLine"
                      /\ lines # << >>) =>
            /\ Len(lines') = Len(lines) - 1
            /\ lines' = Front(lines)
            /\ Last(redos') = Last(undos)
        /\ (RedoFrame /\ redos # << >> /\ Last(redos).kind = "DrawLine") =>
            /\ Len(lines') = Len(lines) + 1
            /\ Front(lines') = lines
            /\ Last(lines').points = Last(redos).line.points
            /\ Last(lines').finished
      ]_vars

\* a stroke of two points was drawn and undone, a second stroke was
\* drawn, and the first was redone: it now lies behind the second
C8_Witness ==
    /\ state.name = "Idle"
    /\ Len(trace) = 2
    /\ trace[1].kind = "DrawLine"
    /\ trace[2].kind = "DrawLine"
    /\ Len(trace[1].line.points) = 2
    /\ lines = << trace[2].line, trace[1].line >>
    /\ Last(undos) = trace[1]

KindRank(kind) ==
    CASE kind = "image" -> 1 [] kind = "line" -> 2 [] kind = "eraser" -> 3

PaintInCreationOrder(c) ==
    LET order == PaintOrder(c)
    IN  \A i \in 1..Len(order), j \in 1..Len(order) :
            i < j => order[i].born < order[j].born

\* C10: with draw, paste and erase gestures only, no frame lowers the z
\* counter, and after every frame the items are painted in the order in
\* which they were created, whatever their kinds.
C10_GesturesPaintInCreationOrder ==
    [][ /\ contents'.z >= contents.z
        /\ PaintInCreationOrder(contents') ]_vars

\* an eraser, then an image, then a line, made by gestures
C10_Witness ==
    /\ hist.mode = "gestures"
    /\ Len(contents.erasers) = 1
    /\ Len(contents.images) = 1
    /\ Len(contents.lines) = 1
    /\ contents.erasers[1].born < contents.images[1].born
    /\ contents.images[1].born < contents.lines[1].born
    /\ contents.lines[1].z = contents.images[1].z

\* ------------------------------------------------------------------ C11
images == contents.images

\* C11: when MovingImage(id) is left, the image having ended less than
\* 10 px from where it was on entry, nothing is pushed and both logs are
\* as they were; having ended more than 10 px away, exactly one
\* MoveImage(id, start_pos, end_pos) is pushed and is the newest entry of
\* the undo log.  The image stays where the drag left it in both cases.
C11_MoveNoiseFilter ==
    [][ (Running("MovingImage") /\ state'.name # "MovingImage") =>
            LET pos == images[ImageIndex(contents, state.id)].pos
            IN  /\ HasImage(contents, state.id)
                /\ HasImage(contents', state.id)
                /\ images'[ImageIndex(contents', state.id)].pos = pos
                /\ Dist2(state.start_pos, pos) < 10 * 10 =>
                        /\ trace' = trace
                        /\ command_invoker' = command_invoker
                /\ Dist2(state.start_pos, pos) > 10 * 10 =>
                        /\ trace' = Append(trace,
                                MoveImage_new(state.id, state.start_pos, pos))
                        /\ pc' = "running" =>
                                /\ undos' # << >>
                                /\ Last(undos') = Last(trace')
                                /\ Len(undos') <= Len(undos) + 1
      ]_vars

\* an image was dragged 12 px and the move was recorded, then dragged
\* 6 px more and left there with nothing recorded
C11_Witness ==
    /\ state.name = "ModifyingImage"
    /\ Len(trace) = 2
    /\ trace[2].kind = "MoveImage"
    /\ Dist2(trace[2].start_pos, trace[2].end_pos) = 12 * 12
    /\ undos # << >>
    /\ Last(undos) = trace[2]
    /\ HasImage(contents, state.id)
    /\ Dist2(images[ImageIndex(contents, state.id)].pos, trace[2].end_pos)
            = 6 * 6

\* ------------------------------------------------------------------ C12
\* C12: the machine starts in Idle, and a frame either stays in its state
\* or switches along one of: Idle -> Drawing | MovingCanvas | Erasing |
\* ModifyingImage; Drawing -> Idle | DrawingStraight; DrawingStraight ->
\* Drawing | Idle; MovingCanvas -> Idle; Erasing -> Idle; ModifyingImage
\* -> Idle | MovingImage | ResizingImage; MovingImage -> ModifyingImage;
\* ResizingImage -> ModifyingImage.  The image states carry one id from
\* the selection to its end.
C12_TransitionGraph ==
    /\ state = Idle
    /\ [][ /\ \/ state'.name = state.name
              \/ << state.name, state'.name >> \in
                    { << "Idle", "Drawing" >>, << "Idle", "MovingCanvas" >>,
                      << "Idle", "Erasing" >>, << "Idle", "ModifyingImage" >>,
                      << "Drawing", "Idle" >>,
                      << "Drawing", "DrawingStraight" >>,
                      << "DrawingStraight", "Drawing" >>,
                      << "DrawingStraight", "Idle" >>,
                      << "MovingCanvas", "Idle" >>, << "Erasing", "Idle" >>,
                      << "ModifyingImage", "Idle" >>,
                      << "ModifyingImage", "MovingImage" >>,
                      << "ModifyingImage", "ResizingImage" >>,
                      << "MovingImage", "ModifyingImage" >>,
                      << "ResizingImage", "ModifyingImage" >> }
           /\ (state.name # "Idle" /\ state'.name # "Idle") =>
                    state'.id = state.id
       ]_vars

\* the longest way from Idle was gone and come back: an image was
\* selected, resized (the newest entry of the log), and is now being moved
C12_Witness ==
    /\ state.name = "MovingImage"
    /\ undos # << >>
    /\ Last(undos).kind = "ResizeImage"
    /\ Last(undos).id = state.id
    /\ \E i \in 1..Len(trace) : trace[i].kind = "PasteImage"

C14_Revalidates ==
    Running("ModifyingImage") =>
        \A left, right \in BOOLEAN, action \in Actions,
           m \in MousePts \cup NearPts :
            (left \/ right) =>
                LET hit == image_under_cursor(contents, m)
                    r == ModifyingImage_step(state, D, left, right, action,
                                             hit)
                    fin == ApplyTransition(r, m)
                IN  /\ r.switch
                    /\ r.d = D
                    /\ r.to = IF hit # state.id THEN Idle
                              ELSE IF left THEN MovingImage_new(state.id)
                              ELSE ResizingImage_new(state.id)
                    /\ fin.state.name = r.to.name
                    /\ fin.state.id = r.to.id
                    /\ fin.d.trace = trace

\* two images lie under the cursor, and the one that was selected and
\* found there again is being moved
C14_Witness ==
    /\ state.name = "MovingImage"
    /\ Len(images) = 2
    /\ \A i \in 1..2 : in_bounds(images[i], mouse)
    /\ state.id = image_under_cursor(contents, mouse)

\* ------------------------------------------------------------------ C15
\* C15: at every cursor position that some image contains, the image the
\* hit test selects is one of highest z among the images containing it.
C15_HitIsTopmost ==
    \A m \in MousePts :
        LET hit == { i \in 1..Len(images) : in_bounds(images[i], m) }
        IN  hit # {} =>
                \E k \in hit :
                    /\ images[k].id = image_under_cursor(contents, m)
                    /\ \A j \in hit : images[j].z <= images[k].z

\* ------------------------------------------------------------------ C16
\* C16: the ids that Contents::next_image_id has returned, which are the
\* ids of the pasted images in the order of their pastes, are strictly
\* increasing, and all lie below the counter; so does the id of every
\* image in Contents or held by a command of either log, whatever has
\* been removed, undone or redone since.
C16_IdsNeverReused ==
    LET pasted == { i \in 1..Len(trace) : trace[i].kind = "PasteImage" }
        held(log) == { log[i].image.id : i \in
                        { k \in 1..Len(log) :
                            log[k].kind \in { "PasteImage", "RemoveImage" } } }
    IN  /\ \A i, j \in pasted :
                i < j => trace[i].image.id < trace[j].image.id
        /\ \A i \in pasted : trace[i].image.id < contents.next_image_id
        /\ \A i \in 1..Len(images) : images[i].id < contents.next_image_id
        /\ \A id \in held(undos) \cup held(redos) :
                id < contents.next_image_id

\* an image was pasted and the paste undone, then a second image was
\* pasted: it has a new id, though Contents held no image at that moment
C16_Witness ==
    /\ Len(images) = 1
    /\ images[1].id = 1
    /\ redos # << >>
    /\ Last(redos).kind = "PasteImage"
    /\ Last(redos).image.id = 0

\* ------------------------------------------------------------------ C17
\* C17: no two images of Contents have the same z.
C17_ImageZUnique ==
    \A i, j \in 1..Len(images) : images[i].z = images[j].z => i = j

\* ------------------------------------------------------------------ C18
\* C18: a frame of ModifyingImage(id) with the UpLayer (DownLayer) key
\* changes the z of the image with that id to z + 1, at most the z
\* counter (to z - 1, at least 0), and nothing else: every other image,
\* the other fields of that image, the lines, the erasers, the z counter,
\* the id counter, both logs and the state are as before.  With an id
\* that no image has, move_image_up and move_image_down change nothing.
C18_LayerMoveFrame ==
    [][ /\ \A key \in { "UpLayer", "DownLayer" } :
            ( /\ Running("ModifyingImage")
              /\ Frame(ModifyingImage_step(state, D, FALSE, FALSE, key,
                                           NoImage), Origin) ) =>
                LET k == ImageIndex(contents, state.id)
                    z == images[k].z
                IN  /\ HasImage(contents, state.id)
                    /\ contents' =
                            [contents EXCEPT !.images[k].z =
                                IF key = "UpLayer"
                                THEN (IF z + 1 <= contents.z
                                      THEN z + 1 ELSE contents.z)
                                ELSE (IF z >= 1 THEN z - 1 ELSE 0)]
                    /\ 0 <= images'[k].z /\ images'[k].z <= contents.z
                    /\ command_invoker' = command_invoker
                    /\ trace' = trace
                    /\ state' = state
        /\ \A id \in IdPts :
                ~HasImage(contents, id) =>
                    /\ move_image_up(contents, id) = contents
                    /\ move_image_down(contents, id) = contents
      ]_vars

\* of two images the older was selected and moved a layer up: it stopped
\* at the z counter, where the younger one is
C18_Witness ==
    /\ state.name = "ModifyingImage"
    /\ Len(images) = 2
    /\ state.id = images[1].id
    /\ images[1].z = contents.z
    /\ images[2].z = contents.z
    /\ images[1].born < images[2].born

\* ------------------------------------------------------------------ C19
\* C19: in every reachable state whose handler is ModifyingImage(id),
\* MovingImage{id} or ResizingImage{id}, Contents holds an image with
\* that id, and no expect or unwrap on the lookup has failed, whatever
\* was pasted, removed, undone or redone before.
C19_SelectedImageExists ==
    /\ pc # "panicked"
    /\ state.name \in { "ModifyingImage", "MovingImage", "ResizingImage" } =>
            HasImage(contents, state.id)

\* an image is selected while the redo log holds the paste of another
\* image, which an undo took out of Contents
C19_Witness ==
    /\ state.name \in { "ModifyingImage", "MovingImage", "ResizingImage" }
    /\ HasImage(contents, state.id)
    /\ redos # << >>
    /\ Last(redos).kind = "PasteImage"
    /\ Last(redos).image.id # state.id

\* ------------------------------------------------------------------ C20
\* C20: entering Erasing and every frame that stays in it leave Contents
\* and both logs as they are (the rectangle is kept by the state only);
\* the frame that leaves Erasing appends exactly one Eraser, made of that
\* rectangle and the current z counter, raises the counter by one, pushes
\* exactly one AddEraser holding that eraser (the newest entry of the
\* undo log once the push has returned) and changes nothing else.
C20_ErasingSession ==
    [][ /\ (Running("Idle") /\ state'.name = "Erasing") =>
                /\ contents' = contents
                /\ command_invoker' = command_invoker
                /\ trace' = trace
                /\ state'.eraser.w = 0 /\ state'.eraser.h = 0
        /\ (Running("Erasing") /\ state'.name = "Erasing"
                               /\ pc' = "running") =>
                /\ contents' = contents
                /\ command_invoker' = command_invoker
                /\ trace' = trace
        /\ (Running("Erasing") /\ state'.name = "Idle") =>
                /\ Len(contents'.erasers) = Len(contents.erasers) + 1
                /\ Front(contents'.erasers) = contents.erasers
                /\ Last(contents'.erasers).rect = state.eraser
                /\ Last(contents'.erasers).z = contents.z
                /\ contents'.z = contents.z + 1
                /\ contents' = [contents EXCEPT !.erasers = contents'.erasers,
                                                !.z = contents.z + 1]
                /\ trace' = Append(trace,
                                AddEraser_new(Last(contents'.erasers)))
                /\ undos' # << >>
                /\ Last(undos') = Last(trace')
                /\ Len(undos') <= Len(undos) + 1
                /\ redos' = redos
      ]_vars

\* two sessions ended: a rectangle dragged over 12 px lies in Contents
\* behind an empty one, each with the z counter of its exit, and the undo
\* log ends with the AddEraser of the second
C20_Witness ==
    /\ Running("Idle")
    /\ Len(contents.erasers) = 2
    /\ contents.erasers[1].rect.h = 12
    /\ contents.erasers[2].rect.h = 0
    /\ contents.erasers[2].z = contents.erasers[1].z + 1
    /\ contents.z = contents.erasers[2].z + 1
    /\ undos # << >>
    /\ Last(undos) = AddEraser_new(contents.erasers[2])

\* ------------------------------------------------------------------ C21
\* C21: ResizingImage(id) is entered with start_scale set to the scale the
\* image has then and keeps it while it stays; the frame that leaves it
\* pushes exactly one ResizeImage(id, start_scale, scale at exit), the
\* newest entry of the undo log once the push has returned, and leaves
\* the image as it is; the undo of that command gives the image the
\* scale it had when the session began.
C21_ResizeSession ==
    [][ /\ (Running("ModifyingImage") /\ state'.name = "ResizingImage") =>
                /\ HasImage(contents, state.id)
                /\ state'.id = state.id
                /\ state'.start_scale =
                        images[ImageIndex(contents, state.id)].scale
                /\ trace' = trace
        /\ (Running("ResizingImage") /\ state'.name = "ResizingImage"
                                     /\ pc' = "running") =>
                /\ state'.start_scale = state.start_scale
                /\ trace' = trace
                /\ command_invoker' = command_invoker
        /\ (Running("ResizingImage") /\ state'.name # "ResizingImage") =>
                LET k == ImageIndex(contents, state.id)
                IN  /\ HasImage(contents, state.id)
                    /\ trace' = Append(trace,
                            ResizeImage_new(state.id, state.start_scale,
                                            images[k].scale))
                    /\ undos' # << >>
                    /\ Last(undos') = Last(trace')
                    /\ Len(undos') <= Len(undos) + 1
                    /\ redos' = redos
                    /\ images'[k].scale = images[k].scale
        /\ (UndoFrame /\ undos # << >> /\ Last(undos).kind = "ResizeImage"
                      /\ HasImage(contents, Last(undos).id)) =>
                /\ images'[ImageIndex(contents, Last(undos).id)].scale
                        = Last(undos).start_scale
                /\ Len(images') = Len(images)
      ]_vars

\* an image pasted at scale 12 was resized to 24 in one session, and the
\* undo of that session's command has brought it back to 12
C21_Witness ==
    /\ Running("Idle")
    /\ Len(trace) = 2
    /\ trace[2] = ResizeImage_new(0, TexSize, 2 * TexSize)
    /\ redos # << >>
    /\ Last(redos) = trace[2]
    /\ Len(images) = 1
    /\ images[1].id = 0
    /\ images[1].scale = TexSize

\* ------------------------------------------------------------------ C22
\* C22: a line that is finished is the same line, with the same points,
\* after every frame that leaves it in Contents; the lines get fewer only
\* by an undo, which takes the last one away whole; a line that appears
\* already finished comes from a redo and is the line its DrawLine was
\* pushed with; every other new line is unfinished.
C22_FinishedLinesFrozen ==
    [][ /\ \A i \in 1..Len(lines) :
                (lines[i].finished /\ i <= Len(lines')) =>
                    lines'[i] = lines[i]
        /\ Len(lines') < Len(lines) =>
                /\ UndoFrame
                /\ lines' = Front(lines)
        /\ Len(lines') > Len(lines) =>
                /\ Len(lines') = Len(lines) + 1
                /\ Last(lines').finished =>
                        /\ RedoFrame
                        /\ redos # << >>
                        /\ Last(redos).kind = "DrawLine"
                        /\ Last(lines') = Last(redos).line
                        /\ \E j \in 1..Len(trace) : trace[j] = Last(redos)
      ]_vars

\* behind a finished stroke of two points, held by the one command that
\* was pushed, a second stroke is being drawn and has its second point
C22_Witness ==
    /\ state.name = "Drawing"
    /\ Len(lines) = 2
    /\ lines[1].finished
    /\ Len(lines[1].points) = 2
    /\ trace = << DrawLine_new(lines[1]) >>
    /\ ~lines[2].finished
    /\ Len(lines[2].points) = 2

\* ------------------------------------------------------------------ C23
\* C23: the frame that switches from Drawing to DrawingStraight, or back,
\* finishes the line in progress (DrawingStraight gives it its end point
\* first), pushes one DrawLine holding that line, and only then adds the
\* new line: the pushed command holds the line of the state that was
\* left, the new line has one point and is unfinished, and it is the only
\* unfinished line.  While frames run, an unfinished line is the last one
\* and the state is Drawing or DrawingStraight.
C23_ExitBeforeEnter ==
    [][ /\ ( /\ << state.name, state'.name >> \in
                    { << "Drawing", "DrawingStraight" >>,
                      << "DrawingStraight", "Drawing" >> }
              /\ pc = "running" ) =>
                LET n == Len(lines)
                IN  /\ n >= 1
                    /\ Len(lines') = n + 1
                    /\ \A i \in 1..(n - 1) : lines'[i] = lines[i]
                    /\ lines'[n].finished
                    /\ lines'[n].points =
                            IF state.name = "Drawing" THEN lines[n].points
                            ELSE Append(lines[n].points,
                                        Last(lines'[n].points))
                    /\ trace' = Append(trace, DrawLine_new(lines'[n]))
                    /\ Last(undos') = DrawLine_new(lines'[n])
                    /\ ~lines'[n + 1].finished
                    /\ Len(lines'[n + 1].points) = 1
                    /\ lines'[n + 1].born = Len(trace')
                    /\ \A i \in 1..n : lines'[i].finished
        /\ pc = "running" =>
                \A i \in 1..Len(lines) :
                    ~lines[i].finished =>
                        /\ i = Len(lines)
                        /\ state.name \in { "Drawing", "DrawingStraight" }
      ]_vars

\* a stroke was begun freehand, continued as a straight segment and then
\* freehand again: its first two parts are finished and held, in that
\* order, by the two commands pushed, and the third part is open
C23_Witness ==
    /\ Running("Drawing")
    /\ Len(lines) = 3
    /\ lines[1].finished /\ lines[2].finished /\ ~lines[3].finished
    /\ Len(lines[2].points) = 2
    /\ trace = << DrawLine_new(lines[1]), DrawLine_new(lines[2]) >>
    /\ lines[3].born = 2

\* ------------------------------------------------------------------ C24
\* C24: a frame of Idle with the Paste key and no clipboard, a clipboard
\* image that does not decode or a texture that does not load changes
\* nothing: Contents, both logs and the state are as before.  With an
\* image that loads, the frame appends exactly one image, whose z is the
\* z counter raised by one and whose id is the id counter, raises the id
\* counter by one, and pushes exactly one PasteImage holding that image;
\* lines, erasers, the other images and the redo log are as before.
C24_PasteFrame ==
    [][ \A clip \in ClipOutcomes :
        \A m \in PtsIf(clip = "ok") :
            ( /\ Running("Idle")
              /\ Frame(Idle_step(state, D, m, FALSE, FALSE, FALSE, "Paste",
                                 clip, NoImage), m) ) =>
                IF clip # "ok"
                THEN /\ contents' = contents
                     /\ command_invoker' = command_invoker
                     /\ trace' = trace
                     /\ state' = state
                ELSE /\ Len(images') = Len(images) + 1
                     /\ Front(images') = images
                     /\ Last(images').id = contents.next_image_id
                     /\ Last(images').z = contents.z + 1
                     /\ contents' =
                            [contents EXCEPT !.images = images',
                                             !.z = contents.z + 1,
                                             !.next_image_id = @ + 1]
                     /\ trace' = Append(trace, PasteImage_new(Last(images')))
                     /\ redos' = redos
                     /\ state' = state
                     /\ pc' = "running" =>
                            /\ undos' # << >>
                            /\ Last(undos') = Last(trace')
                            /\ Len(undos') <= Len(undos) + 1
      ]_vars

\* two images were pasted one after the other: ids 0 and 1, z 1 and 2,
\* both counters at 2, and one PasteImage for each
C24_Witness ==
    /\ Running("Idle")
    /\ Len(images) = 2
    /\ images[1].id = 0 /\ images[2].id = 1
    /\ images[1].z = 1 /\ images[2].z = 2
    /\ contents.z = 2
    /\ contents.next_image_id = 2
    /\ trace = << PasteImage_new(images[1]), PasteImage_new(images[2]) >>

\* C25: zoom centres on the cursor.  In a frame whose Camera::update
\* advances the zoom (no pan pending), the canvas point under the mouse
\* position of that frame is the same after the tick as before it; and for
\* as long as the mouse stays where the wheel was turned and the canvas is
\* not panned, the canvas point that was under the cursor then is still
\* drawn at the cursor, at every tick and once the animation is at rest.
\* (For cameras whose zoom is finite and not zero: what happens otherwise
\* is the matter of C28.  The f32 rounding is not modelled.)
C25_ZoomAnchored ==
    [][ hist.mode = "camera" =>
          /\ ( /\ ~AtRest(camera.zoom_interp)
               /\ AtRest(camera.pos_x_interp)
               /\ AtRest(camera.pos_y_interp)
               /\ Usable(camera)
               /\ Usable(camera') )
             => Point_to_canvas(QPoint(mouse'), camera')
                    = Point_to_canvas(QPoint(mouse'), camera)
          /\ ( hist'.anchor.set /\ Usable(camera') )
             => Point_to_screen(hist'.anchor.d, camera')
                    = QPoint(hist'.anchor.m) ]_vars

\* a zoom turned at a cursor away from the origin has come to rest with
\* the mouse still there: the zoom and the origin have both changed
C25_Witness ==
    /\ hist.mode = "camera"
    /\ hist.anchor.set
    /\ AtRest(camera.zoom_interp)
    /\ Usable(camera)
    /\ camera.zoom # Q(1, 1)
    /\ camera.pos.x # Q(0, 1)
    /\ camera.pos.y # Q(0, 1)

\* C26: space round trip.  For every camera the runs reach whose zoom is
\* positive, a canvas point taken to the screen ((p - pos) * zoom) and
\* back (s / zoom + pos) is the point itself, and so are a length, a
\* vector and a rectangle (one dragged to negative extents too).  The
\* arithmetic is exact: what f32 rounding adds is not modelled.
C26_RoundTrip ==
    LET pts == { [ x |-> Q(3, 1), y |-> Q(-2, 1) ],
                 [ x |-> Q(1, 2), y |-> Q(-7, 3) ] }
        lens == { Q(5, 1), Q(-3, 2) }
    IN  ( hist.mode = "camera" /\ Usable(camera) /\ QLt(Q(0, 1), camera.zoom) )
        => /\ \A p \in pts :
                /\ Point_to_canvas(Point_to_screen(p, camera), camera) = p
                /\ Vector_to_canvas(Vector_to_screen(p, camera), camera) = p
           /\ \A l \in lens :
                Length_to_canvas(Length_to_screen(l, camera), camera) = l
           /\ \A p \in pts, w \in lens, h \in lens :
                LET r == [ pos |-> p, w |-> w, h |-> h ]
                IN  Rect_to_canvas(Rect_to_screen(r, camera), camera) = r

\* a camera that was zoomed to a fraction and moved away from the origin
C26_Witness ==
    /\ hist.mode = "camera"
    /\ Usable(camera)
    /\ QLt(Q(0, 1), camera.zoom)
    /\ camera.zoom.d # 1
    /\ camera.pos.x.n # 0
    /\ camera.pos.y.n # 0

\* C27: whenever the three animators of the camera are at rest
\* (Interpolator::advance returns None), the animated value is its
\* target: the zoom is the last target given to update_zoom and the
\* origin is the last pan target, here even with the 1e-3 that advance
\* itself tolerates.
C27_RestAtTarget ==
    LET tol == Q(1, 1000)
        near(a, b) == QLe(a, QAdd(b, tol)) /\ QLe(b, QAdd(a, tol))
    IN  ( /\ hist.mode = "camera"
          /\ AtRest(camera.zoom_interp)
          /\ AtRest(camera.pos_x_interp)
          /\ AtRest(camera.pos_y_interp) )
        => /\ near(camera.zoom, camera.zoom_interp.target)
           /\ near(camera.pos.x, camera.pos_x_interp.target)
           /\ near(camera.pos.y, camera.pos_y_interp.target)

\* C28: in every reachable state the zoom of the camera is strictly
\* positive and within the range [0.1, 10] that Scene::update_zoom clamps
\* its target to, whatever the scrolls and the frame times.
C28_ZoomInRange ==
    hist.mode = "camera" =>
        /\ QLt(Q(0, 1), camera.zoom)
        /\ QLe(Q(1, 10), camera.zoom)
        /\ QLe(camera.zoom, Q(10, 1))

\* C29: every eraser in Contents is culled and painted exactly like its
\* normalized rectangle (non-negative width and height, origin at the
\* upper left corner, same region): for every view of the camera the
\* culling test on its bounds answers as on the bounds of the normalized
\* rectangle, and what is painted is the normalized rectangle.
C29_ErasersNormalized ==
    \A i \in 1..Len(contents.erasers) :
        LET r == contents.erasers[i].rect
            n == FilledRect_normalized_rect(r)
        IN  /\ n.w >= 0 /\ n.h >= 0
            /\ FilledRect_draw(r) = FilledRect_draw(n)
            /\ \A view \in Views :
                    is_in_view(FilledRect_bounds(r), view)
                        <=> is_in_view(FilledRect_bounds(n), view)

\* C30: after any sequence of colour keys color_idx is in [0, length of
\* the palette) and brush.color is the palette's colour at that index;
\* and from every such state NextColor goes to the next index (from the
\* last one to 0) and PrevColor to the one before (from 0 to the last
\* one), the call returning (no arithmetic underflow) and brush.color
\* following.
C30_ColorWraps ==
    ( hist.mode = "colors" /\ Running("Idle") ) =>
        LET len == Len(brush.colors)
        IN  /\ brush.color_idx \in 0..(len - 1)
            /\ brush.color = brush.colors[brush.color_idx + 1]
            /\ \A forward \in BOOLEAN :
                    LET d1 == update_color(D, forward)
                        idx == IF forward THEN (brush.color_idx + 1) % len
                               ELSE (brush.color_idx + len - 1) % len
                    IN  /\ d1.pc = "running"
                        /\ d1.brush.color_idx = idx
                        /\ d1.brush.color = brush.colors[idx + 1]

\* ------------------------------------------------------------------ C31
\* C31: release returns.  In Drawing, DrawingStraight, MovingCanvas and
\* Erasing a frame with no mouse button down switches to Idle in that
\* frame (whatever the modifiers and the mouse position); Erasing does so
\* too when only the modifier is up; in MovingImage(id) a frame with the
\* primary button up, and in ResizingImage(id) a frame with the secondary
\* button up, switches to ModifyingImage(id).  (The state after the frame
\* is read for hooks that return.)
C31_ReleaseReturns ==
    pc = "running" =>
        \A m \in MousePts, key \in BOOLEAN :
            LET dlt == PointSub(m, mouse)
                r == CASE state.name = "Drawing" ->
                            Drawing_step(state, D, m, FALSE, key)
                       [] state.name = "DrawingStraight" ->
                            DrawingStraight_step(state, D, FALSE, key)
                       [] state.name = "MovingCanvas" ->
                            MovingCanvas_step(state, D, FALSE)
                       [] state.name = "Erasing" ->
                            Erasing_step(state, D, dlt, FALSE, key)
                       [] state.name = "MovingImage" ->
                            MovingImage_step(state, D, dlt, FALSE)
                       [] state.name = "ResizingImage" ->
                            ResizingImage_step(state, D, dlt, FALSE)
                       [] OTHER -> SwitchTo(state, state, D, "switch")
                fin == ApplyTransition(r, m)
                back == IF state.name \in { "MovingImage", "ResizingImage" }
                        THEN ModifyingImage(state.id)
                        ELSE IF state.name \in { "Idle", "ModifyingImage" }
                        THEN state ELSE Idle
            IN  /\ r.switch
                /\ r.to = back
                /\ fin.d.pc = "running" => fin.state = back
                /\ state.name = "Erasing" =>
                        LET e == Erasing_step(state, D, dlt, TRUE, FALSE)
                        IN  e.switch /\ e.to = Idle

\* back in Idle after a stroke and an eraser drag, both committed
C31_Witness ==
    /\ Running("Idle")
    /\ Len(contents.lines) = 1
    /\ contents.lines[1].finished
    /\ Len(contents.erasers) = 1
    /\ Len(trace) = 2

\* ------------------------------------------------------------------ C32
\* C32: in every reachable state no two images in Contents.images have the
\* same id, whatever the interleaving of paste, remove, undo and redo.
C32_ImageIdsDistinct ==
    \A i, j \in 1..Len(contents.images) :
        contents.images[i].id = contents.images[j].id => i = j

\* ------------------------------------------------------------------ C33
\* C33: whenever the machine is in Idle and a DrawLine, PasteImage or
\* AddEraser is at the back of the undo log, undo takes out of Contents
\* exactly the item of that command: the line the command holds (then
\* the last line), the image with the id the command holds (every other
\* image staying), the eraser the command holds.
C33_UndoReversesItsItem ==
    ( Running("Idle") /\ command_invoker.undos # << >> ) =>
        LET cmd == Last(command_invoker.undos)
            c1 == CommandInvoker_undo(D).contents
        IN  CASE cmd.kind = "DrawLine" ->
                    /\ contents.lines # << >>
                    /\ Last(contents.lines) = cmd.line
                    /\ c1.lines = Front(contents.lines)
              [] cmd.kind = "PasteImage" ->
                    /\ HasImage(contents, cmd.image.id)
                    /\ c1.images = RetainNotId(contents.images, cmd.image.id)
              [] cmd.kind = "AddEraser" ->
                    /\ contents.erasers # << >>
                    /\ Last(contents.erasers) = cmd.eraser
                    /\ c1.erasers = Front(contents.erasers)
              [] OTHER -> TRUE

\* ------------------------------------------------------------------ C34
\* C34: in every reachable Idle state with a non-empty undo log, undo
\* immediately followed by redo (both returning) leaves Contents
\* observably as it was: the same lines, the same images with the same
\* pos, scale and z, the same erasers.
C34_UndoRedoIdentity ==
    ( Running("Idle") /\ command_invoker.undos # << >> ) =>
        LET d1 == CommandInvoker_undo(D)
            d2 == CommandInvoker_redo(d1)
        IN  ( d1.pc = "running" /\ d2.pc = "running" )
                => Obs(d2.contents) = Obs(contents)

\* ------------------------------------------------------------------ C35
\* C35: an image is selected only while the machine is in ModifyingImage
\* for that image's id; in every other state no image of Contents is
\* selected, at most one image is selected at a time, and the images held
\* by the commands of both logs (the ones undo and redo put back) are
\* unselected.
C35_SelectedOnlyWhileModifying ==
    pc = "running" =>
        /\ \A i \in 1..Len(images) :
                images[i].is_selected =>
                    /\ state.name = "ModifyingImage"
                    /\ images[i].id = state.id
                    /\ \A j \in 1..Len(images) :
                            images[j].is_selected => j = i
        /\ \A log \in { undos, redos } : \A k \in 1..Len(log) :
                log[k].kind \in { "PasteImage", "RemoveImage" }
                    => ~log[k].image.is_selected

\* An image that was selected, removed and put back by undo: it is in
\* Contents again, unselected, with the RemoveImage waiting in the redo log.
C35_Witness ==
    /\ Running("Idle")
    /\ redos # << >>
    /\ Last(redos).kind = "RemoveImage"
    /\ HasImage(contents, Last(redos).image.id)
    /\ ~images[ImageIndex(contents, Last(redos).image.id)].is_selected

\* ------------------------------------------------------------------ C36
\* C36: outside Drawing and DrawingStraight (so in Idle, where undo and
\* redo are applied) every line of Contents is finished; an unfinished
\* line exists only in Drawing and DrawingStraight and is the last element
\* of Contents.lines; and every finished line was pushed as a DrawLine
\* holding exactly that line.
C36_LinesFinishedOutsideDrawing ==
    pc = "running" =>
        /\ \A i \in 1..Len(lines) :
                ~lines[i].finished =>
                    /\ state.name \in { "Drawing", "DrawingStraight" }
                    /\ i = Len(lines)
        /\ \A i \in 1..Len(lines) :
                lines[i].finished =>
                    \E k \in 1..Len(trace) : trace[k] = DrawLine_new(lines[i])

\* Idle with two finished lines: a freehand stroke that went on as a
\* straight segment.
C36_Witness ==
    /\ Running("Idle")
    /\ Len(lines) = 2
    /\ Len(lines[1].points) = 1
    /\ Len(lines[2].points) = 2

\* ------------------------------------------------------------------ C37
\* C37: a DrawingStraight session adds exactly one line, of one point, the
\* cursor position of the frame that enters; while the machine stays in
\* the state its frames change neither Contents nor the pushes, so the
\* line keeps its one point; the frame that leaves appends exactly one
\* point, the cursor position of that frame, finishes the line and pushes
\* exactly one DrawLine, holding the line with its two points.
C37_StraightSession ==
    /\ Running("Drawing") =>
            \A m \in MousePts :
                LET fin == ApplyTransition(
                                Drawing_step(state, D, m, TRUE, TRUE), m)
                IN  fin.d.pc = "running" =>
                        /\ fin.state.name = "DrawingStraight"
                        /\ Len(fin.d.contents.lines) = Len(lines) + 1
                        /\ Last(fin.d.contents.lines).points = << m >>
                        /\ ~Last(fin.d.contents.lines).finished
    /\ Running("DrawingStraight") =>
            /\ lines # << >>
            /\ Len(Last(lines).points) = 1
            /\ ~Last(lines).finished
            /\ \A left, shift \in BOOLEAN : \A m \in MousePts :
                LET r == DrawingStraight_step(state, D, left, shift)
                    fin == ApplyTransition(r, m)
                    n == Len(lines)
                    done == [lines[n] EXCEPT !.points = Append(@, m),
                                             !.finished = TRUE]
                IN  IF left /\ shift
                    THEN /\ fin.state = state
                         /\ fin.d = D
                    ELSE fin.d.pc = "running" =>
                            /\ fin.state.name =
                                    (IF left THEN "Drawing" ELSE "Idle")
                            /\ fin.d.trace = Append(trace, DrawLine_new(done))
                            /\ Last(fin.d.command_invoker.undos)
                                    = DrawLine_new(done)
                            /\ SubSeq(fin.d.contents.lines, 1, n)
                                    = [lines EXCEPT ![n] = done]
                            /\ Len(fin.d.contents.lines)
                                    = (IF left THEN n + 1 ELSE n)

\* a committed segment whose two points are the same position, which no
\* freehand stroke can hold (Drawing appends a point only 5 px or more
\* away): Idle, the line finished, its DrawLine the last push
C37_Witness ==
    /\ Running("Idle")
    /\ lines # << >>
    /\ Last(lines).finished
    /\ Len(Last(lines).points) = 2
    /\ Last(lines).points[1] = Last(lines).points[2]
    /\ trace # << >>
    /\ Last(trace) = DrawLine_new(Last(lines))

\* ------------------------------------------------------------------ C38
\* C38: in ModifyingImage(id) the Remove key takes exactly the image with
\* that id out of Contents (everything else stays), pushes exactly one
\* RemoveImage holding that image unselected, and switches to Idle; an
\* undo right after puts the image back with its id, pos, scale and z, and
\* a redo right after that leaves Contents as the Remove left it.
C38_RemoveUndoRedo ==
    Running("ModifyingImage") =>
        LET r == ModifyingImage_step(state, D, FALSE, FALSE, "Remove", NoImage)
            fin == ApplyTransition(r, Origin)
            k == ImageIndex(contents, state.id)
            img == [images[k] EXCEPT !.is_selected = FALSE]
            rest == SubSeq(images, 1, k - 1)
                        \o SubSeq(images, k + 1, Len(images))
            d1 == CommandInvoker_undo(fin.d)
            d2 == CommandInvoker_redo(d1)
        IN  fin.d.pc = "running" =>
                /\ fin.state.name = "Idle"
                /\ fin.d.contents = [contents EXCEPT !.images = rest]
                /\ \A i \in 1..Len(rest) : rest[i].id # state.id
                /\ fin.d.trace = Append(trace, RemoveImage_new(img))
                /\ Last(fin.d.command_invoker.undos) = RemoveImage_new(img)
                /\ d1.pc = "running" =>
                        /\ Len(d1.contents.images) = Len(images)
                        /\ \E i \in 1..Len(images) :
                                d1.contents.images[i] = img
                        /\ d2.pc = "running" =>
                                d2.contents = fin.d.contents

\* ------------------------------------------------------------------ C39
\* C39: in ModifyingImage a frame with no button down whose key decodes
\* to Undo, Redo, NextColor, PrevColor or Paste switches to Idle and
\* applies none of them: Contents, both command logs, the pushes and the
\* brush are as before the frame, except that the image of the state is
\* no longer selected.
C39_KeysOnlyLeave ==
    Running("ModifyingImage") =>
        \A action \in { "Undo", "Redo", "NextColor", "PrevColor", "Paste" } :
        \A hit \in { NoImage, state.id } :
            LET r == ModifyingImage_step(state, D, FALSE, FALSE, action, hit)
                fin == ApplyTransition(r, Origin)
                k == ImageIndex(contents, state.id)
            IN  /\ k > 0
                /\ fin.state = Idle
                /\ fin.d = [D EXCEPT !.contents.images[k].is_selected = FALSE]
                /\ fin.d.brush = brush

\* an image is selected while every one of the keys would change
\* something in Idle: the undo log ends with its PasteImage, the redo log
\* holds a command, and the palette has a second colour
C39_Witness ==
    /\ Running("ModifyingImage")
    /\ undos # << >>
    /\ Last(undos).kind = "PasteImage"
    /\ Last(undos).image.id = state.id
    /\ redos # << >>
    /\ update_color(D, TRUE).brush # brush
    /\ Len(images) < MaxImages

\* ------------------------------------------------------------------ C40
\* C40: a zoom animation terminates.  The wheel is turned in finitely many
\* frames of a run, so from some frame on no zoom input arrives: whenever
\* update_zoom has armed the animator, after finitely many frames with
\* positive frame times the animator is at rest (advance returns None);
\* and a frame without zoom input that finds it at rest leaves it at rest,
\* with the zoom unchanged.
C40_ZoomTerminates ==
    /\ ~AtRest(camera.zoom_interp) ~> AtRest(camera.zoom_interp)
    /\ [][ ( AtRest(camera.zoom_interp) /\ hist'.frames = hist.frames ) =>
                /\ AtRest(camera'.zoom_interp)
                /\ camera'.zoom = camera.zoom ]_vars

\* an animation armed by the wheel has run and come to rest on a target
\* other than the zoom of the default camera; advance has answered None,
\* which is when it sets starting to target
C40_Witness ==
    /\ hist.mode = "zooms"
    /\ hist.frames >= 1
    /\ AtRest(camera.zoom_interp)
    /\ camera.zoom_interp.target # Q(1, 1)
    /\ camera.zoom_interp.starting = camera.zoom_interp.target
    /\ camera.zoom_interp.duration_sec = Q(7, 100)

====
